---------------------------- MODULE WebhookAuth ----------------------------
(***************************************************************************)
(* validate_webhook: how a posted event is verified, in each of the modes  *)
(* WebhookSettings.effective_auth_mode() chooses between.  Requests are    *)
(* verified on worker threads and share, per key URL, the PyJWT client and *)
(* its cache of Canvas's key set (both external: modelled from the calls   *)
(* and the arguments in auth.py).  Canvas rotates its keys meanwhile.      *)
(*                                                                         *)
(* Time is counted in half hours; only ages are kept.  What a signed event *)
(* claims matters once its signature is verified and is chosen then.       *)
(***************************************************************************)
EXTENDS CanvasRecords

CONSTANTS
  Requests,   \* requests verified at the same time
  Setups,     \* the webhook settings a course may have
  Posts,      \* what is posted, see SignedPosts and PlainPosts
  Keys,       \* key IDs Canvas publishes
  Rsa,        \* those whose own algorithm is RS256
  Lifespan,   \* of the key set in the cache, in half hours
  Contexts,   \* IDs of the courses events are about
  CourseId,   \* settings.canvas.course_id
  Shard,      \* factor between shard and local ID in a global ID
  None        \* no mode, no post, no key set

ASSUME KeysAssumption == Rsa \subseteq Keys
ASSUME AuthNumbers ==
  Lifespan \in Nat /\ Shard \in Nat \ {0} /\ CourseId \in Nat /\ Contexts \subseteq Nat

AuthModes == {"canvas-signed-jwt", "legacy-bearer-jwt", "hmac", "canvas-api"}

AllSetups == [authMode : AuthModes \cup {None}, requireJwt : BOOLEAN,
              secret : BOOLEAN, fallback : BOOLEAN]

\* A signed body: does its header name RS256 and a key, which, is it signed with
\* that key, and do exp, nbf, iat and aud hold where it claims them.  Any other
\* body: its JSON, a bearer token or MACs in the headers, "good" if made with the
\* course's secret, and the submission.
SignedPosts == [header : BOOLEAN, kid : Keys, signed : BOOLEAN, timely : BOOLEAN]
Macs == {"none", "bad", "notAscii", "good"}
PlainPosts == [json : {"broken", "mismatch", "other", "event"},
               bearer : {"none", "basic", "bad", "good"},
               canvasMac : Macs, hubMac : Macs, submission : Nat]

ASSUME AuthNone == None \notin Nat \cup Posts \cup AuthModes
ASSUME PostsAssumption == Setups \subseteq AllSetups /\ Posts \subseteq SignedPosts \cup PlainPosts

VARIABLES
  settings,   \* WebhookSettings of the course
  published,  \* keys Canvas publishes now
  gone,       \* key -> time since it was last published, up to Lifespan + 2
  garbled,    \* history: time since Canvas last answered with JSON that is no
              \* usable key set, up to Lifespan + 2
  cache,      \* keys in the cache of the client, none in what is no key set
  cacheAge,   \* time since they were put there, up to Lifespan + 1; None without
  step,       \* request -> where it is, or its answer
  post,       \* request -> what it posted
  jwks,       \* request -> the key set it has in hand
  refreshed,  \* request -> has it asked for the key set anew for its key ID
  waited,     \* request -> has time passed while it asked
  kept        \* history: request -> its key has been published since it began

keyWorld == <<published, gone, garbled>>
client == <<cache, cacheAge>>
request == <<step, post, jwks, refreshed, waited, kept>>
auth == <<settings, keyWorld, client, request>>
authVars == <<assigned, auth>>

Verdicts == {"verified", "unavailable", "schema", "elsewhere",
             "late", "notJson", "invalid", "crashed"}

AuthTypeOK ==
  /\ settings \in Setups
  /\ published \in (SUBSET Keys) \ {{}}
  /\ gone \in [Keys -> 0..Lifespan + 2]
  /\ garbled \in 0..Lifespan + 2
  /\ cache \subseteq Keys
  /\ cacheAge \in 0..Lifespan + 1 \cup {None}
  /\ step \in [Requests -> {"idle", "validate", "keys", "fetch", "fetched", "token", "api"}
                             \cup Verdicts]
  /\ post \in [Requests -> Posts \cup {None}]
  /\ jwks \in [Requests -> SUBSET Keys]
  /\ refreshed \in [Requests -> BOOLEAN]
  /\ waited \in [Requests -> BOOLEAN]
  /\ kept \in [Requests -> BOOLEAN]

AuthInit ==
  /\ settings \in Setups
  /\ published \in (SUBSET Keys) \ {{}}
  /\ gone = [k \in Keys |-> IF k \in published THEN 0 ELSE Lifespan + 2]
  /\ garbled = Lifespan + 2
  /\ cache = {}
  /\ cacheAge = None
  /\ step = [r \in Requests |-> "idle"]
  /\ post = [r \in Requests |-> None]
  /\ jwks = [r \in Requests |-> {}]
  /\ refreshed = [r \in Requests |-> FALSE]
  /\ waited = [r \in Requests |-> FALSE]
  /\ kept = [r \in Requests |-> FALSE]

\* Mutant: an explicit mode is taken as it is.
EffectiveMode_ExplicitWins ==
  IF settings.authMode # None THEN settings.authMode
  ELSE IF settings.requireJwt THEN "legacy-bearer-jwt"
  ELSE IF settings.secret THEN "hmac"
  ELSE IF settings.fallback THEN "canvas-api" ELSE None

\* effective_auth_mode
EffectiveMode ==
  CASE settings.authMode = "canvas-api" -> IF settings.fallback THEN "canvas-api" ELSE None
    [] settings.authMode \notin {"canvas-api", None} -> settings.authMode
    [] settings.authMode = None /\ settings.requireJwt -> "legacy-bearer-jwt"
    [] settings.authMode = None /\ ~settings.requireJwt /\ settings.secret -> "hmac"
    [] OTHER -> IF settings.fallback THEN "canvas-api" ELSE None

IsSigned(p) == p \in SignedPosts
SignedMode == EffectiveMode = "canvas-signed-jwt"

Move(r, point) == step' = [step EXCEPT ![r] = point]

\* The request has no key set in hand, or none any longer.
DropKeys(r) ==
  /\ jwks' = [jwks EXCEPT ![r] = {}]
  /\ refreshed' = [refreshed EXCEPT ![r] = FALSE]
  /\ waited' = [waited EXCEPT ![r] = FALSE]

\* The request moves on to a step that needs no key set, or to its answer.
Answer(r, point) ==
  /\ Move(r, point)
  /\ DropKeys(r)
  /\ UNCHANGED <<assigned, settings, keyWorld, client, post, kept>>

Receive(r, p) ==
  /\ step[r] = "idle"
  /\ Move(r, "validate")
  /\ post' = [post EXCEPT ![r] = p]
  /\ kept' = [kept EXCEPT ![r] = IsSigned(p) /\ p.kid \in published]
  /\ UNCHANGED <<assigned, settings, keyWorld, client, jwks, refreshed, waited>>

------------------------------------------------------------------------------
(* The modes without Canvas's signature: the body is parsed first *)

\* 400 for no JSON, 422 for JSON of another shape.
RejectBody(r) ==
  /\ step[r] = "validate" /\ ~SignedMode
  /\ \/ IsSigned(post[r]) /\ Answer(r, "notJson")
     \/ ~IsSigned(post[r]) /\ post[r].json = "broken" /\ Answer(r, "notJson")
     \/ ~IsSigned(post[r]) /\ post[r].json = "mismatch" /\ Answer(r, "schema")

Parsed(r) == step[r] = "validate" /\ ~IsSigned(post[r]) /\ post[r].json \in {"other", "event"}

\* Without a secret no token is valid.
ValidToken(bearer) == settings.secret /\ bearer = "good"

\* _jwt_verification_result
CheckBearer(r) ==
  /\ Parsed(r) /\ EffectiveMode = "legacy-bearer-jwt"
  /\ Answer(r, IF ValidToken(post[r].bearer) THEN "verified" ELSE "invalid")

\* X-Canvas-Signature goes before X-Hub-Signature-256.
HmacSignature(p) == IF p.canvasMac # "none" THEN p.canvasMac ELSE p.hubMac

\* With or without the prefix sha256= makes no difference; none is not valid,
\* and compare_digest raises a TypeError for text that is not ASCII: 500.
MacVerdict(mac) ==
  CASE settings.secret /\ mac = "good" -> "verified"
    [] settings.secret /\ mac = "notAscii" -> "crashed"
    [] OTHER -> "invalid"

\* _hmac_verification_result
CheckMac(r) ==
  /\ Parsed(r) /\ EffectiveMode = "hmac"
  /\ Answer(r, MacVerdict(HmacSignature(post[r])))

\* Verification is not configured.
RejectUnconfigured(r) ==
  /\ Parsed(r) /\ EffectiveMode = None
  /\ Answer(r, "invalid")

\* verify_via_canvas_api: only for submission events ...
AskCanvas(r) ==
  /\ Parsed(r) /\ EffectiveMode = "canvas-api"
  /\ Answer(r, IF post[r].json = "event" THEN "api" ELSE "invalid")

\* ... by the status of the endpoint, asked with the submission ID.
CanvasAnswers(r) ==
  /\ step[r] = "api"
  /\ Answer(r, IF HasSubmission(post[r].submission) THEN "verified" ELSE "invalid")

\* requests.RequestException: 502.
CanvasFails(r) ==
  /\ step[r] = "api"
  /\ Answer(r, "unavailable")

------------------------------------------------------------------------------
(* _canvas_signed_jwt_verification_result *)

\* Not a token, another algorithm or no key ID: 401 without looking at keys.
RejectHeader(r) ==
  /\ step[r] = "validate" /\ SignedMode
  /\ IsSigned(post[r]) => ~post[r].header
  /\ Answer(r, "invalid")

\* Mutant: the key set in the cache never expires.
CacheValid_ForEver == cacheAge # None

CacheValid == cacheAge # None /\ cacheAge <= Lifespan

\* get_signing_key: the key set in the cache if it has not expired ...
UseCache(r) ==
  /\ step[r] = "validate" /\ SignedMode
  /\ IsSigned(post[r]) /\ post[r].header
  /\ CacheValid
  /\ Move(r, "keys")
  /\ jwks' = [jwks EXCEPT ![r] = cache]
  /\ UNCHANGED <<assigned, settings, keyWorld, client, post, refreshed, waited, kept>>

\* ... or the one Canvas publishes.
AskKeys(r) ==
  /\ step[r] = "validate" /\ SignedMode
  /\ IsSigned(post[r]) /\ post[r].header
  /\ ~CacheValid
  /\ Answer(r, "fetch")

\* Canvas answers with the keys it publishes at that moment.
KeysAnswered(r) ==
  /\ step[r] = "fetch"
  /\ Move(r, "fetched")
  /\ jwks' = [jwks EXCEPT ![r] = published]
  /\ UNCHANGED <<assigned, settings, keyWorld, client, post, refreshed, waited, kept>>

\* It answers with JSON that is not a key set, or one without a usable key.
KeysGarbled(r) ==
  /\ step[r] = "fetch"
  /\ Move(r, "fetched")
  /\ jwks' = [jwks EXCEPT ![r] = {}]
  /\ garbled' = 0
  /\ UNCHANGED <<assigned, settings, published, gone, client, post, refreshed, waited, kept>>

\* Whether the client keeps its key set then is its own affair.
DropCache == cache' = {} /\ cacheAge' = None

\* The answer arrives and replaces what the cache has by then, before anybody
\* looks whether it is a key set (null empties the cache); unless two first
\* requests each built a client, and this one's is not the one that is kept.
StoreKeys(r) ==
  /\ step[r] = "fetched"
  /\ Move(r, "keys")
  /\ \/ cache' = jwks[r] /\ cacheAge' = 0
     \/ jwks[r] = {} /\ DropCache
     \/ UNCHANGED client
  /\ UNCHANGED <<assigned, settings, keyWorld, post, jwks, refreshed, waited, kept>>

\* PyJWKSetError or PyJWKClientError, which are PyJWTErrors: 401, also for what
\* is in the cache.
RejectKeySet(r) ==
  /\ step[r] = "keys" /\ jwks[r] = {}
  /\ Answer(r, "invalid")

\* Mutant: PyJWTError is caught before PyJWKClientConnectionError, a subclass.
FetchFails_Invalid(r) ==
  /\ step[r] \in {"fetch", "fetched"}
  /\ Move(r, "invalid")
  /\ DropCache \/ UNCHANGED client
  /\ DropKeys(r)
  /\ UNCHANGED <<assigned, settings, keyWorld, post, kept>>

\* No connection or no answer in time: 502; an answer that is no JSON raises
\* what nobody catches: 500.
FetchFails(r) ==
  /\ step[r] \in {"fetch", "fetched"}
  /\ \E verdict \in {"unavailable", "crashed"} : Move(r, verdict)
  /\ DropCache \/ UNCHANGED client
  /\ DropKeys(r)
  /\ UNCHANGED <<assigned, settings, keyWorld, post, kept>>

\* Mutant: a key ID that is not in the cache is not looked up again.
RefreshKeys_Never(r) ==
  /\ step[r] = "keys" /\ jwks[r] # {} /\ post[r].kid \notin jwks[r] /\ ~refreshed[r]
  /\ Answer(r, "invalid")

\* The key ID is not in the set: ask for it anew, once.
RefreshKeys(r) ==
  /\ step[r] = "keys" /\ jwks[r] # {} /\ post[r].kid \notin jwks[r] /\ ~refreshed[r]
  /\ Move(r, "fetch")
  /\ refreshed' = [refreshed EXCEPT ![r] = TRUE]
  /\ UNCHANGED <<assigned, settings, keyWorld, client, post, jwks, waited, kept>>

\* jwt.decode, with the checks of claims it makes unless told otherwise.
Decodes(p) == p.kid \in Rsa /\ p.signed /\ p.timely

\* Not in the new one either, a key for another algorithm, not its signature, or
\* a token that has expired, is not valid yet or is meant for somebody else.
RejectSignature(r) ==
  /\ step[r] = "keys" /\ jwks[r] # {}
  /\ \/ post[r].kid \notin jwks[r] /\ refreshed[r]
     \/ post[r].kid \in jwks[r] /\ ~Decodes(post[r])
  /\ Answer(r, "invalid")

AcceptSignature(r) ==
  /\ step[r] = "keys"
  /\ post[r].kid \in jwks[r] /\ Decodes(post[r])
  /\ Answer(r, "token")

\* _is_for_course: a context that is a course, by its local or its global ID.
IsForCourse(context) == context # None /\ CourseId \in {context, context % Shard}

Claims == [schema : BOOLEAN, context : Contexts \cup {None}, fresh : BOOLEAN]

\* The claims, in this order: submission event, course, event_time.
ClaimsVerdict(claims) ==
  CASE ~claims.schema -> "schema"
    [] claims.schema /\ ~IsForCourse(claims.context) -> "elsewhere"
    [] claims.schema /\ IsForCourse(claims.context) /\ ~claims.fresh -> "late"
    [] OTHER -> "verified"

CheckClaims(r) ==
  /\ step[r] = "token"
  /\ \E claims \in Claims : Answer(r, ClaimsVerdict(claims))

------------------------------------------------------------------------------
(* The environment *)

Finish(r) ==
  /\ step[r] \in Verdicts
  /\ Move(r, "idle")
  /\ post' = [post EXCEPT ![r] = None]
  /\ kept' = [kept EXCEPT ![r] = FALSE]
  /\ UNCHANGED <<assigned, settings, keyWorld, client, jwks, refreshed, waited>>

Publish(k) ==
  /\ k \notin published
  /\ published' = published \cup {k}
  /\ gone' = [gone EXCEPT ![k] = 0]
  /\ UNCHANGED <<assigned, settings, garbled, client, request>>

\* Canvas withdraws a key, never the last.
Retire(k) ==
  /\ published \ {k} # {} /\ k \in published
  /\ published' = published \ {k}
  /\ kept' = [r \in Requests |-> kept[r] /\ post[r].kid # k]
  /\ UNCHANGED <<assigned, settings, gone, garbled, client, step, post, jwks, refreshed, waited>>

\* Half an hour passes.  A request waits ten seconds for a key set at most, so
\* one such boundary falls into its life; between its calls it only computes.
Tick ==
  /\ \A r \in Requests :
       \/ step[r] \in {"idle"} \cup Verdicts
       \/ step[r] \in {"fetch", "fetched"} /\ ~waited[r]
  /\ waited' = [r \in Requests |-> waited[r] \/ step[r] \in {"fetch", "fetched"}]
  /\ gone' = [k \in Keys |-> IF k \in published \/ gone[k] = Lifespan + 2
                             THEN gone[k] ELSE gone[k] + 1]
  /\ garbled' = IF garbled = Lifespan + 2 THEN garbled ELSE garbled + 1
  /\ cacheAge' = IF CacheValid THEN cacheAge + 1 ELSE cacheAge
  /\ UNCHANGED <<assigned, settings, published, cache, step, post, jwks, refreshed, kept>>

CheckPlain(r) ==
  \/ RejectBody(r) \/ CheckBearer(r) \/ CheckMac(r) \/ RejectUnconfigured(r)
  \/ AskCanvas(r) \/ CanvasAnswers(r) \/ CanvasFails(r)

CheckSigned(r) ==
  \/ RejectHeader(r) \/ UseCache(r) \/ AskKeys(r) \/ KeysAnswered(r) \/ KeysGarbled(r)
  \/ StoreKeys(r) \/ FetchFails(r) \/ RejectKeySet(r) \/ RefreshKeys(r)
  \/ RejectSignature(r) \/ AcceptSignature(r) \/ CheckClaims(r)

Validate(r) == CheckPlain(r) \/ CheckSigned(r)

Handle ==
  \E r \in Requests :
    \/ \E p \in Posts : Receive(r, p)
    \/ Validate(r)
    \/ Finish(r)

Rotate == (\E k \in Keys : Publish(k) \/ Retire(k)) \/ Tick

ChangeRecords == \E u \in Users : (Enrol(u) \/ Leave(u)) /\ UNCHANGED auth

AuthNext == Handle \/ Rotate \/ ChangeRecords

AuthSpec == AuthInit /\ [][AuthNext]_authVars

------------------------------------------------------------------------------
(* Properties *)

Genuine(p) == p.header /\ Decodes(p)

\* An event signed with a key that Canvas has published ever since the request
\* came in is not refused as badly signed, whatever the cache held, however
\* keys rotate, and when a key set cannot be had: the request is answered 502
\* then, which has Canvas try again (docs: "a transient JWK-fetch failure").
\* The exception is an answer of Canvas that is JSON but no key set: it may be
\* taken into the cache and have events of every request refused, but for no
\* longer than a key set may stay there and its answer have been under way.
RefusalIsExcused ==
  \A r \in Requests :
    kept[r] /\ Genuine(post[r]) /\ step[r] # "invalid" /\ step'[r] = "invalid" =>
      ~SignedMode \/ garbled <= Lifespan + 1

GenuineGetsThrough == [][RefusalIsExcused]_authVars

\* A key that Canvas has withdrawn stops counting, although key sets are kept in
\* a cache that every request shares: no signature is accepted whose key was last
\* published longer ago than a key set may stay there (lifespan=3600) and its
\* answer may have been under way (timeout=10).
AcceptedKeyIsRecent ==
  \A r \in Requests :
    step[r] # "token" /\ step'[r] = "token" => gone[post[r].kid] <= Lifespan + 1

KeysExpire == [][AcceptedKeyIsRecent]_authVars

\* A signature, a token or a MAC made with a key or the secret, or consent.
MayPass(p) ==
  \/ IsSigned(p) /\ Genuine(p)
  \/ ~IsSigned(p) /\ settings.secret /\ "good" \in {p.bearer, p.canvasMac, p.hubMac}
  \/ settings.fallback

\* Whatever combination of settings a course has, a request passes only with a
\* signature, a token or a MAC made with a key or the secret, or because the
\* course allows the Canvas API fallback ("Disabled by default because it
\* weakens request authentication").
UnsignedNeedsFallback == \A r \in Requests : step[r] = "verified" => MayPass(post[r])

\* "canvas-api authentication only checks that the submission exists in Canvas".
ApiVerdictIsExistence ==
  [][\A r \in Requests :
       step[r] = "api" /\ step'[r] \in {"verified", "invalid"} =>
         (step'[r] = "verified" <=> post[r].submission \in Records)]_authVars

\* Why the first two hold.  A key set, and what is none, gets out of date by no
\* more than the time it is in the cache, and the one half hour its answer may
\* have been under way; and a key set that was asked for anew has the key that
\* was kept throughout.
CacheInv ==
  /\ \A k \in published : gone[k] = 0
  /\ cacheAge # None => \A k \in cache : gone[k] <= cacheAge + 1
  /\ \A r \in Requests, k \in Keys :
       /\ step[r] = "fetched" /\ k \in jwks[r] => gone[k] <= (IF waited[r] THEN 1 ELSE 0)
       /\ step[r] = "keys" /\ k \in jwks[r] => gone[k] <= Lifespan + 1

GarbledInv ==
  /\ cacheAge # None /\ cache = {} => garbled <= cacheAge + 1
  /\ \A r \in Requests :
       /\ step[r] = "fetched" /\ jwks[r] = {} => garbled <= (IF waited[r] THEN 1 ELSE 0)
       /\ step[r] = "keys" /\ jwks[r] = {} => garbled <= Lifespan + 1

KeptInv ==
  \A r \in Requests :
    /\ step[r] = "api" => ~SignedMode
    /\ step[r] \in {"idle", "validate"} \cup Verdicts => ~refreshed[r]
    /\ step[r] \in {"keys", "fetch", "fetched"} => IsSigned(post[r])
    /\ kept[r] => /\ IsSigned(post[r]) /\ post[r].kid \in published
                  /\ step[r] = "fetched" => post[r].kid \in jwks[r] \/ jwks[r] = {}
                  /\ step[r] = "keys" /\ refreshed[r] =>
                       post[r].kid \in jwks[r] \/ jwks[r] = {}

\* Why the third holds: what a request needs to pass it has shown on its way.
PassInv ==
  \A r \in Requests :
    /\ step[r] \in {"keys", "fetch", "fetched", "token"} => IsSigned(post[r]) /\ post[r].header
    /\ step[r] = "token" => Genuine(post[r])
    /\ step[r] = "api" => settings.fallback
=============================================================================
