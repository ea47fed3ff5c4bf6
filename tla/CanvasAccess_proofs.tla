------------------------- MODULE CanvasAccess_proofs -------------------------
(***************************************************************************)
(* Proofs about CanvasAccess.  Verification, for any requests, posts, key  *)
(* sets and settings: a genuine event is not refused as invalid, keys that *)
(* are withdrawn expire, and nobody passes unasked.  Lookups, for any      *)
(* users, length of a page and numbering of users and records: a lookup    *)
(* returns the record it was asked for, and denies it only if a user left. *)
(* And both at once, before one Canvas.                                    *)
(***************************************************************************)
EXTENDS CanvasAccess, FiniteSetTheorems, TLAPS

------------------------------------------------------------------------------
(* WebhookAuth *)

USE KeysAssumption, AuthNumbers, PostsAssumption, AuthNone

\* The steps that only move a request on or answer it.
Answering(r) ==
  \/ RejectBody(r) \/ CheckBearer(r) \/ CheckMac(r) \/ RejectUnconfigured(r)
  \/ AskCanvas(r) \/ CanvasAnswers(r) \/ CanvasFails(r) \/ RejectHeader(r)
  \/ AskKeys(r) \/ RejectKeySet(r) \/ RejectSignature(r) \/ AcceptSignature(r)
  \/ CheckClaims(r)

\* A look at the claims is an answer other than "invalid".
LEMMA ClaimsAnswer ==
  ASSUME NEW r \in Requests, CheckClaims(r)
  PROVE  \E verdict \in {"schema", "elsewhere", "late", "verified"} : Answer(r, verdict)
<1>1. PICK claims \in Claims : Answer(r, ClaimsVerdict(claims))
  BY DEF CheckClaims
<1>2. ClaimsVerdict(claims) \in {"schema", "elsewhere", "late", "verified"}
  BY DEF ClaimsVerdict
<1> QED
  BY <1>1, <1>2

\* What they leave alone, and where the request can be afterwards.
LEMMA AnsweringStep ==
  ASSUME NEW r \in Requests, Answering(r)
  PROVE  \E point \in {"fetch", "token", "api"} \cup Verdicts :
           /\ Answer(r, point)
           /\ point = "fetch" => IsSigned(post[r]) /\ SignedMode
           /\ point = "api" => ~SignedMode
           /\ point = "token" => step[r] = "keys" /\ post[r].kid \in jwks[r]
<1>1. CASE RejectBody(r)
  BY <1>1 DEF RejectBody, Verdicts
<1>2. CASE CheckBearer(r) \/ CheckMac(r) \/ RejectUnconfigured(r) \/ CanvasAnswers(r) \/ CanvasFails(r)
  <2>1. \E verdict \in {"verified", "invalid", "unavailable", "crashed"} : Answer(r, verdict)
    BY <1>2 DEF CheckBearer, CheckMac, MacVerdict, RejectUnconfigured, CanvasAnswers, CanvasFails
  <2> QED
    BY <2>1 DEF Verdicts
<1>3. CASE AskCanvas(r)
  <2>1. ~SignedMode /\ (Answer(r, "api") \/ Answer(r, "invalid"))
    BY <1>3 DEF AskCanvas, SignedMode
  <2> QED
    BY <2>1 DEF Verdicts
<1>4. CASE RejectHeader(r) \/ RejectKeySet(r) \/ RejectSignature(r)
  <2>1. Answer(r, "invalid")
    BY <1>4 DEF RejectHeader, RejectKeySet, RejectSignature
  <2> QED
    BY <2>1 DEF Verdicts
<1>5. CASE AskKeys(r)
  <2>1. Answer(r, "fetch") /\ IsSigned(post[r]) /\ SignedMode
    BY <1>5 DEF AskKeys
  <2> QED
    BY <2>1
<1>6. CASE AcceptSignature(r)
  <2>1. Answer(r, "token") /\ step[r] = "keys" /\ post[r].kid \in jwks[r]
    BY <1>6 DEF AcceptSignature
  <2> QED
    BY <2>1
<1>7. CASE CheckClaims(r)
  BY <1>7, ClaimsAnswer DEF Verdicts
<1> QED
  BY <1>1, <1>2, <1>3, <1>4, <1>5, <1>6, <1>7 DEF Answering

\* In the signed mode "invalid" is the answer to a genuine event whose key was
\* kept only soon after Canvas answered with no key set.
LEMMA InvalidIsNotGenuine ==
  ASSUME AuthTypeOK, KeptInv, GarbledInv, NEW r \in Requests, Answering(r), SignedMode,
         step[r] # "invalid", step'[r] = "invalid", kept[r], Genuine(post[r])
  PROVE  garbled <= Lifespan + 1
<1> USE DEF AuthTypeOK, Answer, Move, KeptInv
<1>1. CASE RejectBody(r) \/ CheckBearer(r) \/ CheckMac(r) \/ RejectUnconfigured(r) \/ AskCanvas(r)
  BY <1>1, AuthNone DEF RejectBody, CheckBearer, CheckMac, RejectUnconfigured, AskCanvas,
     SignedMode, AuthModes
<1>2. CASE CanvasAnswers(r) \/ CanvasFails(r)
  BY <1>2 DEF CanvasAnswers, CanvasFails
<1>3. CASE RejectHeader(r)
  BY <1>3 DEF RejectHeader, Genuine
<1>4. CASE RejectSignature(r)
  BY <1>4 DEF RejectSignature, Genuine
<1>7. CASE RejectKeySet(r)
  BY <1>7 DEF RejectKeySet, GarbledInv
<1>5. CASE AskKeys(r) \/ AcceptSignature(r)
  BY <1>5 DEF AskKeys, AcceptSignature
<1>6. CASE CheckClaims(r)
  BY <1>6, ClaimsAnswer
<1> QED
  BY <1>1, <1>2, <1>3, <1>4, <1>5, <1>6, <1>7 DEF Answering

------------------------------------------------------------------------------

LEMMA InitAuthType == AuthInit => AuthTypeOK
  BY DEF AuthInit, AuthTypeOK

LEMMA StepAuthType == AuthTypeOK /\ [AuthNext]_authVars => AuthTypeOK'
<1> SUFFICES ASSUME AuthTypeOK, [AuthNext]_authVars PROVE AuthTypeOK'
  OBVIOUS
<1> USE DEF AuthTypeOK, Verdicts, Move, DropKeys, keyWorld, client
<1>1. ASSUME NEW r \in Requests, NEW p \in Posts, Receive(r, p) PROVE AuthTypeOK'
  <2>1. (IsSigned(p) /\ p.kid \in published) \in BOOLEAN
    BY DEF IsSigned
  <2> QED
    BY <1>1, <2>1 DEF Receive
<1>2. ASSUME NEW r \in Requests, Answering(r) PROVE AuthTypeOK'
  <2>1. PICK point \in {"fetch", "token", "api"} \cup Verdicts : Answer(r, point)
    BY <1>2, AnsweringStep
  <2> QED
    BY <2>1 DEF Answer
<1>3. ASSUME NEW r \in Requests, UseCache(r) \/ KeysAnswered(r) \/ KeysGarbled(r) PROVE AuthTypeOK'
  BY <1>3 DEF UseCache, KeysAnswered, KeysGarbled
<1>4. ASSUME NEW r \in Requests, StoreKeys(r) PROVE AuthTypeOK'
  BY <1>4 DEF StoreKeys, DropCache
<1>5. ASSUME NEW r \in Requests, FetchFails(r) PROVE AuthTypeOK'
  BY <1>5 DEF FetchFails, DropCache
<1>6. ASSUME NEW r \in Requests, RefreshKeys(r) \/ Finish(r) PROVE AuthTypeOK'
  BY <1>6 DEF RefreshKeys, Finish
<1>7. ASSUME NEW k \in Keys, Publish(k) PROVE AuthTypeOK'
  <2>1. published' \in (SUBSET Keys) \ {{}}
    BY <1>7 DEF Publish
  <2> QED
    BY <1>7, <2>1 DEF Publish, request
<1>8. ASSUME NEW k \in Keys, Retire(k) PROVE AuthTypeOK'
  BY <1>8 DEF Retire
<1>9. CASE Tick
  <2>1. gone' \in [Keys -> 0..Lifespan + 2]
    BY <1>9 DEF Tick
  <2>2. cacheAge' \in 0..Lifespan + 1 \cup {None}
    BY <1>9 DEF Tick, CacheValid
  <2>3. waited' \in [Requests -> BOOLEAN] /\ garbled' \in 0..Lifespan + 2
    BY <1>9 DEF Tick
  <2> QED
    BY <1>9, <2>1, <2>2, <2>3 DEF Tick
<1>10. CASE ChangeRecords \/ UNCHANGED authVars
  BY <1>10 DEF ChangeRecords, authVars, auth, request
<1> QED
  BY <1>1, <1>2, <1>3, <1>4, <1>5, <1>6, <1>7, <1>8, <1>9, <1>10
     DEF AuthNext, Handle, Rotate, Validate, CheckPlain, CheckSigned, Answering

\* Every variable of the verification keeps its type: the ages of the key set
\* and of the keys stay within the bounds of the model.
THEOREM AuthTypeCorrect == AuthSpec => []AuthTypeOK
  BY InitAuthType, StepAuthType, PTL DEF AuthSpec

------------------------------------------------------------------------------

LEMMA InitAuthInv == AuthInit => CacheInv /\ GarbledInv /\ KeptInv
  BY DEF AuthInit, CacheInv, GarbledInv, KeptInv

LEMMA StepCacheInv ==
  ASSUME AuthTypeOK, CacheInv, [AuthNext]_authVars
  PROVE  CacheInv'
<1> USE DEF AuthTypeOK, CacheInv, Move, DropKeys, keyWorld, client
<1>1. ASSUME NEW r \in Requests, NEW p \in Posts, Receive(r, p) PROVE CacheInv'
  BY <1>1 DEF Receive
<1>2. ASSUME NEW r \in Requests, Answering(r) PROVE CacheInv'
  <2>1. PICK point \in {"fetch", "token", "api"} \cup Verdicts : Answer(r, point)
    BY <1>2, AnsweringStep
  <2> QED
    BY <2>1 DEF Answer, Verdicts
<1>3. ASSUME NEW r \in Requests, UseCache(r) PROVE CacheInv'
  BY <1>3 DEF UseCache, CacheValid
<1>4. ASSUME NEW r \in Requests, KeysAnswered(r) \/ KeysGarbled(r) PROVE CacheInv'
  BY <1>4 DEF KeysAnswered, KeysGarbled
<1>5. ASSUME NEW r \in Requests, StoreKeys(r) PROVE CacheInv'
  BY <1>5 DEF StoreKeys, DropCache
<1>6. ASSUME NEW r \in Requests, FetchFails(r) PROVE CacheInv'
  BY <1>6 DEF FetchFails, DropCache
<1>7. ASSUME NEW r \in Requests, RefreshKeys(r) \/ Finish(r) PROVE CacheInv'
  BY <1>7 DEF RefreshKeys, Finish
<1>8. ASSUME NEW k \in Keys, Publish(k) PROVE CacheInv'
  BY <1>8 DEF Publish, request
<1>9. ASSUME NEW k \in Keys, Retire(k) PROVE CacheInv'
  BY <1>9 DEF Retire
<1>10. CASE Tick
  <2>1. \A k \in Keys : /\ gone'[k] <= gone[k] + 1 /\ gone'[k] \in 0..Lifespan + 2
                        /\ k \in published => gone'[k] = gone[k]
    BY <1>10 DEF Tick
  <2>2. cacheAge # None => cacheAge' = cacheAge + 1 \/ cacheAge' = Lifespan + 1
    BY <1>10 DEF Tick, CacheValid
  <2>3. cacheAge' # None => \A k \in cache' : gone'[k] <= cacheAge' + 1
    BY <1>10, <2>1, <2>2 DEF Tick, CacheValid
  <2>4. ASSUME NEW r \in Requests, NEW k \in jwks[r], step[r] = "fetched"
        PROVE  gone'[k] <= (IF waited'[r] THEN 1 ELSE 0)
    <3>1. ~waited[r] /\ waited'[r]
      BY <1>10, <2>4 DEF Tick, Verdicts
    <3>2. gone[k] = 0
      BY <2>4, <3>1
    <3> QED
      BY <2>1, <3>1, <3>2
  <2>5. \A r \in Requests : step'[r] # "keys"
    BY <1>10 DEF Tick, Verdicts
  <2> QED
    BY <1>10, <2>1, <2>3, <2>4, <2>5 DEF Tick
<1>11. CASE ChangeRecords \/ UNCHANGED authVars
  BY <1>11 DEF ChangeRecords, authVars, auth, request
<1> QED
  BY <1>1, <1>2, <1>3, <1>4, <1>5, <1>6, <1>7, <1>8, <1>9, <1>10, <1>11
     DEF AuthNext, Handle, Rotate, Validate, CheckPlain, CheckSigned, Answering

\* A withdrawn key is accepted for as long as the cache lives and for the time
\* a fetch was under way, and no longer.
THEOREM WithdrawnKeysExpire == AuthSpec => KeysExpire
<1>1. ASSUME AuthTypeOK, CacheInv, [AuthNext]_authVars
      PROVE  AcceptedKeyIsRecent
  <2> USE <1>1 DEF AuthTypeOK, Move, AcceptedKeyIsRecent
  <2>1. ASSUME NEW q \in Requests, Answering(q) PROVE AcceptedKeyIsRecent
    <3>1. PICK point \in {"fetch", "token", "api"} \cup Verdicts :
            /\ step' = [step EXCEPT ![q] = point]
            /\ point = "token" => step[q] = "keys" /\ post[q].kid \in jwks[q]
      <4>1. PICK point \in {"fetch", "token", "api"} \cup Verdicts :
              Answer(q, point) /\ (point = "token" => step[q] = "keys" /\ post[q].kid \in jwks[q])
        BY <2>1, AnsweringStep
      <4> QED
        BY <4>1 DEF Answer
    <3> QED
      BY <3>1 DEF CacheInv
  <2>2. ASSUME NEW q \in Requests,
               \/ (\E p \in Posts : Receive(q, p)) \/ UseCache(q) \/ KeysAnswered(q)
               \/ KeysGarbled(q) \/ StoreKeys(q) \/ FetchFails(q) \/ RefreshKeys(q) \/ Finish(q)
        PROVE  AcceptedKeyIsRecent
    <3>1. \E point \in {"idle", "validate", "keys", "fetch", "fetched", "unavailable", "crashed"} :
            step' = [step EXCEPT ![q] = point]
      BY <2>2 DEF Receive, UseCache, KeysAnswered, KeysGarbled, StoreKeys, FetchFails,
                  RefreshKeys, Finish
    <3> QED
      BY <3>1
  <2>3. ASSUME step' = step PROVE AcceptedKeyIsRecent
    BY <2>3
  <2>4. CASE Rotate \/ ChangeRecords \/ UNCHANGED authVars
    BY <2>3, <2>4 DEF Rotate, Publish, Retire, Tick, ChangeRecords, authVars, auth, request
  <2> QED
    BY <2>1, <2>2, <2>4
       DEF AuthNext, Handle, Validate, CheckPlain, CheckSigned, Answering
<1>2. AuthTypeOK /\ CacheInv /\ [AuthNext]_authVars => [AcceptedKeyIsRecent]_authVars
  BY <1>1
<1>3. AuthTypeOK /\ CacheInv /\ [AuthNext]_authVars => CacheInv'
  BY StepCacheInv
<1> QED
  BY InitAuthInv, AuthTypeCorrect, <1>2, <1>3, PTL DEF AuthSpec, KeysExpire

------------------------------------------------------------------------------

LEMMA StepGarbledInv ==
  ASSUME AuthTypeOK, GarbledInv, [AuthNext]_authVars
  PROVE  GarbledInv'
<1> USE DEF AuthTypeOK, GarbledInv, Move, DropKeys, keyWorld, client
<1>1. ASSUME NEW r \in Requests, NEW p \in Posts, Receive(r, p) PROVE GarbledInv'
  BY <1>1 DEF Receive
<1>2. ASSUME NEW r \in Requests, Answering(r) PROVE GarbledInv'
  <2>1. PICK point \in {"fetch", "token", "api"} \cup Verdicts : Answer(r, point)
    BY <1>2, AnsweringStep
  <2> QED
    BY <2>1 DEF Answer, Verdicts
<1>3. ASSUME NEW r \in Requests, UseCache(r) PROVE GarbledInv'
  BY <1>3 DEF UseCache, CacheValid
<1>4. ASSUME NEW r \in Requests, KeysAnswered(r) PROVE GarbledInv'
  BY <1>4 DEF KeysAnswered
<1>5. ASSUME NEW r \in Requests, KeysGarbled(r) PROVE GarbledInv'
  BY <1>5 DEF KeysGarbled
<1>6. ASSUME NEW r \in Requests, StoreKeys(r) PROVE GarbledInv'
  BY <1>6 DEF StoreKeys, DropCache
<1>7. ASSUME NEW r \in Requests, FetchFails(r) PROVE GarbledInv'
  BY <1>7 DEF FetchFails, DropCache
<1>8. ASSUME NEW r \in Requests, RefreshKeys(r) \/ Finish(r) PROVE GarbledInv'
  BY <1>8 DEF RefreshKeys, Finish
<1>9. ASSUME NEW k \in Keys, Publish(k) \/ Retire(k) PROVE GarbledInv'
  BY <1>9 DEF Publish, Retire, request
<1>10. CASE Tick
  <2>1. garbled' <= garbled + 1 /\ garbled' \in 0..Lifespan + 2
    BY <1>10 DEF Tick
  <2>2. cacheAge # None => cacheAge' = cacheAge + 1 \/ cacheAge' = Lifespan + 1
    BY <1>10 DEF Tick, CacheValid
  <2>3. cacheAge' # None /\ cache' = {} => garbled' <= cacheAge' + 1
    BY <1>10, <2>1, <2>2 DEF Tick, CacheValid
  <2>4. ASSUME NEW r \in Requests, step[r] = "fetched", jwks[r] = {}
        PROVE  garbled' <= (IF waited'[r] THEN 1 ELSE 0)
    <3>1. ~waited[r] /\ waited'[r]
      BY <1>10, <2>4 DEF Tick, Verdicts
    <3>2. garbled = 0
      BY <2>4, <3>1
    <3> QED
      BY <2>1, <3>1, <3>2
  <2>5. \A r \in Requests : step'[r] # "keys"
    BY <1>10 DEF Tick, Verdicts
  <2> QED
    BY <1>10, <2>3, <2>4, <2>5 DEF Tick
<1>11. CASE ChangeRecords \/ UNCHANGED authVars
  BY <1>11 DEF ChangeRecords, authVars, auth, request
<1> QED
  BY <1>1, <1>2, <1>3, <1>4, <1>5, <1>6, <1>7, <1>8, <1>9, <1>10, <1>11
     DEF AuthNext, Handle, Rotate, Validate, CheckPlain, CheckSigned, Answering

LEMMA StepKeptInv ==
  ASSUME AuthTypeOK, KeptInv, [AuthNext]_authVars
  PROVE  KeptInv'
<1> USE DEF AuthTypeOK, KeptInv, Move, DropKeys, keyWorld, client, Verdicts
<1>0. settings' = settings => SignedMode' = SignedMode
  BY DEF SignedMode, EffectiveMode
<1>1. ASSUME NEW r \in Requests, NEW p \in Posts, Receive(r, p) PROVE KeptInv'
  <2>1. kept'[r] = (IsSigned(p) /\ p.kid \in published) /\ post'[r] = p
    BY <1>1 DEF Receive
  <2>2. /\ step'[r] = "validate" /\ ~refreshed'[r]
        /\ UNCHANGED <<settings, published, jwks, refreshed>>
    BY <1>1 DEF Receive
  <2>3. \A q \in Requests \ {r} : step'[q] = step[q] /\ post'[q] = post[q] /\ kept'[q] = kept[q]
    BY <1>1 DEF Receive
  <2> QED
    BY <1>0, <2>1, <2>2, <2>3 DEF IsSigned
<1>2. ASSUME NEW r \in Requests, Answering(r) PROVE KeptInv'
  <2>1. PICK point \in {"fetch", "token", "api"} \cup Verdicts :
          /\ Answer(r, point)
          /\ point = "fetch" => IsSigned(post[r]) /\ SignedMode
          /\ point = "api" => ~SignedMode
    BY <1>2, AnsweringStep
  <2> QED
    BY <1>0, <2>1 DEF Answer
<1>3. ASSUME NEW r \in Requests, UseCache(r) PROVE KeptInv'
  <2>1. IsSigned(post[r]) /\ ~refreshed[r]
    BY <1>3 DEF UseCache
  <2> QED
    BY <1>0, <1>3, <2>1 DEF UseCache
<1>4. ASSUME NEW r \in Requests, KeysAnswered(r) \/ KeysGarbled(r) PROVE KeptInv'
  BY <1>0, <1>4 DEF KeysAnswered, KeysGarbled
<1>5. ASSUME NEW r \in Requests, StoreKeys(r) PROVE KeptInv'
  BY <1>0, <1>5 DEF StoreKeys
<1>6. ASSUME NEW r \in Requests, FetchFails(r) PROVE KeptInv'
  BY <1>0, <1>6 DEF FetchFails
<1>7. ASSUME NEW r \in Requests, RefreshKeys(r) PROVE KeptInv'
  BY <1>0, <1>7 DEF RefreshKeys
<1>8. ASSUME NEW r \in Requests, Finish(r) PROVE KeptInv'
  BY <1>0, <1>8 DEF Finish
<1>9. ASSUME NEW k \in Keys, Publish(k) PROVE KeptInv'
  BY <1>0, <1>9 DEF Publish, request
<1>10. ASSUME NEW k \in Keys, Retire(k) PROVE KeptInv'
  <2>1. \A q \in Requests : kept'[q] => kept[q] /\ post[q].kid # k
    BY <1>10 DEF Retire
  <2>2. /\ published' = published \ {k}
        /\ UNCHANGED <<settings, step, post, jwks, refreshed>>
    BY <1>10 DEF Retire
  <2> QED
    BY <1>0, <2>1, <2>2
<1>11. CASE Tick
  BY <1>0, <1>11 DEF Tick
<1>12. CASE ChangeRecords \/ UNCHANGED authVars
  BY <1>0, <1>12 DEF ChangeRecords, authVars, auth, request
<1> QED
  BY <1>1, <1>2, <1>3, <1>4, <1>5, <1>6, <1>7, <1>8, <1>9, <1>10, <1>11, <1>12
     DEF AuthNext, Handle, Rotate, Validate, CheckPlain, CheckSigned, Answering

\* A genuine event is never refused as badly signed for want of its key, however
\* requests share the cache, keys rotate and fetches fail, except within the
\* lifetime of an answer of Canvas that was no key set.
THEOREM GenuineIsNotRefused == AuthSpec => GenuineGetsThrough
<1>1. ASSUME AuthTypeOK, GarbledInv, KeptInv, [AuthNext]_authVars
      PROVE  RefusalIsExcused
  <2> USE <1>1 DEF AuthTypeOK, Move, RefusalIsExcused
  <2>1. ASSUME NEW q \in Requests, Answering(q) PROVE RefusalIsExcused
    <3>1. \A r \in Requests \ {q} : step'[r] = step[r]
      <4>1. PICK point \in {"fetch", "token", "api"} \cup Verdicts : Answer(q, point)
        BY <2>1, AnsweringStep
      <4> QED
        BY <4>1 DEF Answer
    <3> QED
      BY <2>1, <3>1, InvalidIsNotGenuine
  <2>2. ASSUME NEW q \in Requests,
               \/ (\E p \in Posts : Receive(q, p)) \/ UseCache(q) \/ KeysAnswered(q)
               \/ KeysGarbled(q) \/ StoreKeys(q) \/ FetchFails(q) \/ RefreshKeys(q) \/ Finish(q)
        PROVE  RefusalIsExcused
    <3>1. \E point \in {"idle", "validate", "keys", "fetch", "fetched", "unavailable", "crashed"} :
            step' = [step EXCEPT ![q] = point]
      BY <2>2 DEF Receive, UseCache, KeysAnswered, KeysGarbled, StoreKeys, FetchFails,
                  RefreshKeys, Finish
    <3> QED
      BY <3>1
  <2>3. ASSUME step' = step PROVE RefusalIsExcused
    BY <2>3
  <2>4. CASE Rotate \/ ChangeRecords \/ UNCHANGED authVars
    BY <2>3, <2>4 DEF Rotate, Publish, Retire, Tick, ChangeRecords, authVars, auth, request
  <2> QED
    BY <2>1, <2>2, <2>4
       DEF AuthNext, Handle, Validate, CheckPlain, CheckSigned, Answering
<1>2. AuthTypeOK /\ GarbledInv /\ KeptInv /\ [AuthNext]_authVars
        => GarbledInv' /\ KeptInv' /\ [RefusalIsExcused]_authVars
  BY <1>1, StepGarbledInv, StepKeptInv
<1> QED
  BY InitAuthInv, AuthTypeCorrect, <1>2, PTL DEF AuthSpec, GenuineGetsThrough

------------------------------------------------------------------------------

\* What a request has shown when it is answered, or moved on by an answer.
LEMMA AnsweringShows ==
  ASSUME AuthTypeOK, PassInv, NEW r \in Requests, Answering(r)
  PROVE  \E point \in {"fetch", "token", "api"} \cup Verdicts :
           /\ Answer(r, point)
           /\ point = "fetch" => IsSigned(post[r]) /\ post[r].header
           /\ point = "token" => IsSigned(post[r]) /\ Genuine(post[r])
           /\ point = "api" => settings.fallback
           /\ point = "verified" => MayPass(post[r])
<1>1. CASE RejectBody(r)
  BY <1>1 DEF RejectBody, Verdicts
<1>2. CASE CheckBearer(r)
  <2>1. ~IsSigned(post[r])
    BY <1>2 DEF CheckBearer, Parsed
  <2>2. \/ Answer(r, "invalid")
        \/ Answer(r, "verified") /\ settings.secret /\ post[r].bearer = "good"
    BY <1>2 DEF CheckBearer, ValidToken
  <2> QED
    BY <2>1, <2>2 DEF Verdicts, MayPass
<1>3. CASE CheckMac(r)
  <2>1. ~IsSigned(post[r])
    BY <1>3 DEF CheckMac, Parsed
  <2>2. \/ Answer(r, "invalid") \/ Answer(r, "crashed")
        \/ Answer(r, "verified") /\ settings.secret /\ HmacSignature(post[r]) = "good"
    BY <1>3 DEF CheckMac, MacVerdict
  <2>3. HmacSignature(post[r]) \in {post[r].canvasMac, post[r].hubMac}
    BY DEF HmacSignature
  <2> QED
    BY <2>1, <2>2, <2>3 DEF Verdicts, MayPass
<1>4. CASE \/ RejectUnconfigured(r) \/ CanvasFails(r) \/ RejectHeader(r)
           \/ RejectKeySet(r) \/ RejectSignature(r)
  <2>1. Answer(r, "invalid") \/ Answer(r, "unavailable")
    BY <1>4 DEF RejectUnconfigured, CanvasFails, RejectHeader, RejectKeySet, RejectSignature
  <2> QED
    BY <2>1 DEF Verdicts
<1>5. CASE AskCanvas(r)
  <2>1. EffectiveMode = "canvas-api" => settings.fallback
    BY AuthNone DEF EffectiveMode, AuthTypeOK, AuthModes
  <2>2. settings.fallback /\ (Answer(r, "api") \/ Answer(r, "invalid"))
    BY <1>5, <2>1 DEF AskCanvas
  <2> QED
    BY <2>2 DEF Verdicts
<1>6. CASE CanvasAnswers(r)
  <2>1. settings.fallback /\ (Answer(r, "verified") \/ Answer(r, "invalid"))
    BY <1>6 DEF CanvasAnswers, PassInv
  <2> QED
    BY <2>1 DEF Verdicts, MayPass
<1>7. CASE AskKeys(r)
  <2>1. Answer(r, "fetch") /\ IsSigned(post[r]) /\ post[r].header
    BY <1>7 DEF AskKeys
  <2> QED
    BY <2>1 DEF Verdicts
<1>8. CASE AcceptSignature(r)
  <2>1. Answer(r, "token") /\ IsSigned(post[r]) /\ Genuine(post[r])
    BY <1>8 DEF AcceptSignature, PassInv, Genuine
  <2> QED
    BY <2>1 DEF Verdicts
<1>9. CASE CheckClaims(r)
  <2>1. IsSigned(post[r]) /\ Genuine(post[r])
    BY <1>9 DEF CheckClaims, PassInv
  <2> QED
    BY <1>9, <2>1, ClaimsAnswer DEF Verdicts, MayPass
<1> QED
  BY <1>1, <1>2, <1>3, <1>4, <1>5, <1>6, <1>7, <1>8, <1>9 DEF Answering

LEMMA StepPassInv ==
  ASSUME AuthTypeOK, PassInv, UnsignedNeedsFallback, [AuthNext]_authVars
  PROVE  PassInv' /\ UnsignedNeedsFallback'
<1> USE DEF AuthTypeOK, PassInv, UnsignedNeedsFallback, MayPass, Move, DropKeys, Verdicts
<1> DEFINE Goal == PassInv' /\ UnsignedNeedsFallback'
<1>1. ASSUME NEW r \in Requests, NEW p \in Posts, Receive(r, p) PROVE Goal
  BY <1>1 DEF Receive
<1>2. ASSUME NEW r \in Requests, Answering(r) PROVE Goal
  <2>1. PICK point \in {"fetch", "token", "api"} \cup Verdicts :
          /\ Answer(r, point)
          /\ point = "fetch" => IsSigned(post[r]) /\ post[r].header
          /\ point = "token" => IsSigned(post[r]) /\ Genuine(post[r])
          /\ point = "api" => settings.fallback
          /\ point = "verified" => MayPass(post[r])
    BY <1>2, AnsweringShows
  <2>2. /\ step' = [step EXCEPT ![r] = point]
        /\ UNCHANGED <<settings, post>>
    BY <2>1 DEF Answer
  <2>3. PassInv'
    BY <2>1, <2>2 DEF Genuine
  <2>4. UnsignedNeedsFallback'
    BY <2>1, <2>2
  <2> QED
    BY <2>3, <2>4
<1>3. ASSUME NEW r \in Requests,
             UseCache(r) \/ KeysAnswered(r) \/ KeysGarbled(r) \/ StoreKeys(r) \/ RefreshKeys(r)
      PROVE  Goal
  <2>1. /\ IsSigned(post[r]) /\ post[r].header
        /\ UNCHANGED <<settings, post>>
        /\ \E point \in {"keys", "fetch", "fetched"} : step' = [step EXCEPT ![r] = point]
    BY <1>3 DEF UseCache, KeysAnswered, KeysGarbled, StoreKeys, RefreshKeys
  <2> QED
    BY <2>1
<1>4. ASSUME NEW r \in Requests, FetchFails(r) PROVE Goal
  BY <1>4 DEF FetchFails
<1>5. ASSUME NEW r \in Requests, Finish(r) PROVE Goal
  BY <1>5 DEF Finish
<1>6. CASE Rotate \/ ChangeRecords \/ UNCHANGED authVars
  <2>1. UNCHANGED <<settings, step, post>>
    BY <1>6 DEF Rotate, Publish, Retire, Tick, ChangeRecords, authVars, auth, request
  <2> QED
    BY <2>1
<1> QED
  BY <1>1, <1>2, <1>3, <1>4, <1>5, <1>6
     DEF AuthNext, Handle, Validate, CheckPlain, CheckSigned, Answering

\* Whatever the settings, a request without a genuine signature, token or MAC
\* passes only where the course has allowed the fallback to the Canvas API.
THEOREM NobodyPassesUnasked == AuthSpec => []UnsignedNeedsFallback
<1>1. AuthInit => PassInv /\ UnsignedNeedsFallback
  BY DEF AuthInit, PassInv, UnsignedNeedsFallback
<1>2. /\ AuthTypeOK /\ PassInv /\ UnsignedNeedsFallback /\ [AuthNext]_authVars
      => PassInv' /\ UnsignedNeedsFallback'
  BY StepPassInv
<1> QED
  BY AuthTypeCorrect, <1>1, <1>2, PTL DEF AuthSpec

------------------------------------------------------------------------------
(* SubmissionLookup *)

USE UsersAssumption, PagesAssumption, AskedAssumption

\* The place of a user in the list is before the end of the list.
LEMMA PlaceBounds ==
  ASSUME assigned \subseteq Users, NEW u \in assigned
  PROVE  /\ Place(u) \in Nat
         /\ Cardinality(assigned) \in Nat
         /\ Place(u) < Cardinality(assigned)
<1> DEFINE Before == {v \in assigned : Order[v] < Order[u]}
<1>1. IsFiniteSet(assigned)
  BY FS_Subset
<1>2. IsFiniteSet(Before) /\ Before \cup {u} \subseteq assigned /\ u \notin Before
  BY <1>1, FS_Subset
<1>3. Cardinality(Before \cup {u}) = Cardinality(Before) + 1
  BY <1>2, FS_AddElement
<1>4. Cardinality(Before \cup {u}) <= Cardinality(assigned)
  BY <1>1, <1>2, FS_Subset
<1>5. Cardinality(Before) \in Nat /\ Cardinality(assigned) \in Nat
  BY <1>1, <1>2, FS_CardinalityType
<1> HIDE DEF Before
<1>6. Cardinality(Before) < Cardinality(assigned)
  BY <1>3, <1>4, <1>5
<1> QED
  BY <1>5, <1>6 DEF Place, Before

\* Nobody's place in the list moves forward when a user is enrolled.
LEMMA PlaceGrows ==
  ASSUME assigned \subseteq Users, NEW e \in Users, Enrol(e), NEW u \in assigned
  PROVE  Place(u)' \in Nat /\ Place(u) <= Place(u)'
<1> DEFINE Before == {v \in assigned : Order[v] < Order[u]}
           After == {v \in assigned' : Order[v] < Order[u]}
<1>1. assigned' \subseteq Users /\ Before \subseteq After
  BY DEF Enrol
<1>2. IsFiniteSet(After)
  BY <1>1, FS_Subset
<1>3. Cardinality(Before) <= Cardinality(After) /\ Cardinality(After) \in Nat
  BY <1>1, <1>2, FS_Subset, FS_CardinalityType
<1> QED
  BY <1>3 DEF Place

LEMMA InitLookupType == LookupInit => LookupTypeOK
<1> SUFFICES ASSUME LookupInit PROVE LookupTypeOK
  OBVIOUS
<1>1. found \in {SubOf[u] : u \in Users} \cup {NoRecord}
  BY Zenon DEF LookupInit
<1> QED
  BY <1>1 DEF LookupInit, LookupTypeOK, Ended

LEMMA StepLookupType == LookupTypeOK /\ [LookupNext]_lookupVars => LookupTypeOK'
<1> SUFFICES ASSUME LookupTypeOK, [LookupNext]_lookupVars PROVE LookupTypeOK'
  OBVIOUS
<1> USE DEF LookupTypeOK, Ended
<1>1. ASSUME NEW id \in Asked, Ask(id) PROVE LookupTypeOK'
  BY <1>1 DEF Ask
<1>2. CASE FindDirectly
  BY <1>2 DEF FindDirectly, HasSubmission
<1>3. CASE FallBack
  BY <1>3 DEF FallBack
<1>4. CASE ReadPage
  <2>1. Page(next) \subseteq Users
    BY DEF Page
  <2>2. HasNext(next) \in BOOLEAN
    BY DEF HasNext
  <2>3. next' \in Nat
    BY <1>4 DEF ReadPage
  <2> QED
    BY <1>4, <2>1, <2>2, <2>3 DEF ReadPage
<1>5. CASE PickCandidate
  BY <1>5 DEF PickCandidate
<1>6. CASE NextPage \/ GiveUp \/ CallFails
  BY <1>6 DEF NextPage, GiveUp, CallFails
<1>7. CASE FetchCandidate
  BY <1>7 DEF FetchCandidate, HasSubmission
<1>8. CASE Forget
  BY <1>8 DEF Forget
<1>9. CASE Reassign
  BY <1>9 DEF Reassign, Enrol, Leave, lookup
<1>10. CASE UNCHANGED lookupVars
  BY <1>10 DEF lookupVars, lookup
<1> QED
  BY <1>1, <1>2, <1>3, <1>4, <1>5, <1>6, <1>7, <1>8, <1>9, <1>10
     DEF LookupNext, Lookup

\* Every variable of a lookup keeps its type; in particular the scan fetches
\* by user ID only, never by the ID of a record.
THEOREM LookupTypeCorrect == LookupSpec => []LookupTypeOK
  BY InitLookupType, StepLookupType, PTL DEF LookupSpec

LEMMA InitLookupInv == LookupInit => LookupInv
  BY DEF LookupInit, LookupInv, FoundIsAsked, MissingIsGone

LEMMA StepLookupInv ==
  ASSUME LookupTypeOK, LookupInv, [LookupNext]_lookupVars
  PROVE  LookupInv'
<1> USE DEF LookupTypeOK, LookupInv, FoundIsAsked, MissingIsGone
<1>1. ASSUME NEW id \in Asked, Ask(id) PROVE LookupInv'
  <2>1. next = 0 /\ assigned' = assigned
    BY <1>1 DEF Ask
  <2>2. ASSUME steady' PROVE \E u \in assigned : SubOf[u] = asked'
    BY <1>1, <2>2 DEF Ask, Records
  <2> QED
    BY <1>1, <2>1, <2>2 DEF Ask, Ahead
<1>2. CASE FindDirectly
  BY <1>2 DEF FindDirectly, IsAsked
<1>3. CASE FallBack
  <2>1. ASSUME NEW u \in assigned PROVE Place(u)' = Place(u) /\ Place(u) >= 0
    BY <1>3, <2>1, PlaceBounds DEF FallBack, Place
  <2> QED
    BY <1>3, <2>1 DEF FallBack, Ahead
<1>4. CASE ReadPage
  <2>1. ASSUME steady
        PROVE  \E u \in assigned : SubOf[u] = asked /\ Place(u) >= next
    BY <1>4, <2>1 DEF ReadPage, Ahead
  <2>2. ASSUME NEW u \in assigned, Place(u) >= next PROVE Ahead(u)'
    <3>1. Place(u) \in Nat /\ Cardinality(assigned) \in Nat /\ Place(u) < Cardinality(assigned)
      BY <2>2, PlaceBounds
    <3>2. Place(u)' = Place(u)
      BY <1>4 DEF ReadPage, Place
    <3>3. CASE Place(u) <= next + PerPage - 1
      BY <1>4, <2>2, <3>1, <3>3 DEF ReadPage, Page, Ahead
    <3>4. CASE Place(u) >= next + PerPage
      <4>1. next + PerPage < Cardinality(assigned)
        BY <3>1, <3>4
      <4>2. more' /\ next' = next + PerPage /\ at' = "compare"
        BY <1>4, <4>1 DEF ReadPage, HasNext
      <4> QED
        BY <3>2, <3>4, <4>2 DEF Ahead
    <3> QED
      BY <3>1, <3>3, <3>4
  <2> QED
    BY <1>4, <2>1, <2>2 DEF ReadPage
<1>5. CASE PickCandidate
  BY <1>5 DEF PickCandidate, Ahead
<1>6. CASE NextPage \/ GiveUp \/ CallFails
  <2>1. ASSUME NEW u \in assigned PROVE Place(u)' = Place(u)
    BY <1>6 DEF NextPage, GiveUp, CallFails, Place
  <2> QED
    BY <1>6, <2>1 DEF NextPage, GiveUp, CallFails, NotOnPage, Ahead
<1>7. CASE FetchCandidate
  BY <1>7 DEF FetchCandidate, HasSubmission
<1>8. CASE Forget
  BY <1>8 DEF Forget
<1>9. ASSUME NEW e \in Users, Enrol(e), UNCHANGED lookup PROVE LookupInv'
  <2>1. ASSUME NEW u \in assigned, Ahead(u) PROVE u \in assigned' /\ Ahead(u)'
    <3>1. Place(u) \in Nat /\ Place(u)' \in Nat /\ Place(u) <= Place(u)'
      BY <1>9, PlaceBounds, PlaceGrows
    <3> QED
      BY <1>9, <2>1, <3>1 DEF Enrol, Ahead, lookup
  <2> QED
    BY <1>9, <2>1 DEF lookup
<1>10. CASE \E e \in Users :
         Leave(e) /\ steady' = FALSE
           /\ UNCHANGED <<at, asked, next, queue, more, candidate, found>>
  BY <1>10
<1>11. CASE UNCHANGED lookupVars
  BY <1>11 DEF lookupVars, lookup, Ahead, Place
<1> QED
  BY <1>1, <1>2, <1>3, <1>4, <1>5, <1>6, <1>7, <1>8, <1>9, <1>10, <1>11
     DEF LookupNext, Lookup, Reassign

LEMMA LookupInvariant == LookupSpec => []LookupInv
<1>1. LookupTypeOK /\ LookupInv /\ [LookupNext]_lookupVars => LookupInv'
  BY StepLookupInv
<1> QED
  BY InitLookupInv, LookupTypeCorrect, <1>1, PTL DEF LookupSpec

\* A task gets the record it asked for and no other student's.
THEOREM LookupFindsAsked == LookupSpec => []FoundIsAsked
<1>1. LookupInv => FoundIsAsked
  BY DEF LookupInv
<1> QED
  BY LookupInvariant, <1>1, PTL

\* A record that exists is denied only if a user left during the scan: new users
\* shift the pages, and never the record out of the pages still to be read.
THEOREM LookupMissesOnlyTheGone == LookupSpec => []MissingIsGone
<1>1. LookupInv => MissingIsGone
  BY DEF LookupInv
<1> QED
  BY LookupInvariant, <1>1, PTL

------------------------------------------------------------------------------
(* CanvasAccess *)

LEMMA AuthKeepsRecords == Handle \/ Rotate => UNCHANGED assigned
  BY DEF Handle, Receive, Validate, Finish, CheckPlain, CheckSigned, RejectBody, CheckBearer,
         CheckMac, RejectUnconfigured, AskCanvas, CanvasAnswers, CanvasFails, RejectHeader,
         UseCache, AskKeys, KeysAnswered, KeysGarbled, StoreKeys, FetchFails, RejectKeySet,
         RefreshKeys, RejectSignature, AcceptSignature, CheckClaims, Answer, Rotate, Publish, Retire, Tick

LEMMA LookupKeepsRecords == Lookup => UNCHANGED assigned
  BY DEF Lookup, Ask, FindDirectly, FallBack, ReadPage, PickCandidate, NextPage, GiveUp,
         FetchCandidate, CallFails, Forget

\* Verification and lookups disturb each other only through Canvas's records:
\* before one Canvas, each behaves as before a Canvas of its own.
THEOREM AccessIsBoth == AccessSpec => AuthSpec /\ LookupSpec
<1>1. AccessInit => AuthInit /\ LookupInit
  BY DEF AccessInit
<1>2. [AccessNext]_accessVars => [AuthNext]_authVars /\ [LookupNext]_lookupVars
  <2>1. CASE (Handle \/ Rotate) /\ UNCHANGED lookup
    BY <2>1, AuthKeepsRecords DEF AuthNext, lookupVars
  <2>2. CASE Lookup /\ UNCHANGED auth
    BY <2>2, LookupKeepsRecords DEF LookupNext, authVars
  <2>3. CASE Reassign /\ UNCHANGED auth
    BY <2>3 DEF LookupNext, AuthNext, Reassign, ChangeRecords
  <2>4. CASE UNCHANGED accessVars
    BY <2>4 DEF accessVars, authVars, lookupVars
  <2> QED
    BY <2>1, <2>2, <2>3, <2>4 DEF AccessNext
<1> QED
  BY <1>1, <1>2, PTL DEF AccessSpec, AuthSpec, LookupSpec

\* So what is proved of either holds of the system in which both run.
THEOREM AccessIsSafe ==
  AccessSpec => /\ [](UnsignedNeedsFallback /\ FoundIsAsked /\ MissingIsGone)
                /\ GenuineGetsThrough /\ KeysExpire
  BY AccessIsBoth, GenuineIsNotRefused, NobodyPassesUnasked, WithdrawnKeysExpire,
     LookupFindsAsked, LookupMissesOnlyTheGone, PTL
=============================================================================
