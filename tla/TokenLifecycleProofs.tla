------------------------ MODULE TokenLifecycleProofs ------------------------
(***************************************************************************)
(* Proofs about the tokens, for any HMIs, keys, scopes, lifetimes and      *)
(* clock skew: a refresh token is exchanged at most once and kept while it *)
(* is good, and the two verifiers agree.                                   *)
(***************************************************************************)
EXTENDS TokenLifecycle, TLAPS

USE TokenAssumption

\* A pair of the greatest age is past every lifetime.
LEMMA MaxAgeIsExpired == MaxAge \in Nat /\ MaxAge > RefreshTTL
  BY DEF MaxAge, Greatest

LEMMA InitInv == Init => TokenInv
<1> SUFFICES ASSUME Init PROVE TokenInv
  OBVIOUS
<1>1. /\ age \in [Ids -> 0 .. MaxAge] /\ rotations \in [Ids -> Nat]
      /\ skew \in -MaxSkew .. MaxSkew
  BY MaxAgeIsExpired DEF Init
<1>2. owner \in [Ids -> HMIs] /\ signedBy \in [Ids -> Keys]
      /\ holds \in [HMIs -> Ids \cup {None}]
  BY DEF Init
<1>3. TypeOK
  BY <1>1, <1>2 DEF Init, TypeOK
<1>4. RotatedOnce /\ UnusedUnrotated /\ LiveTokensKept
  BY DEF Init, RotatedOnce, UnusedUnrotated, LiveTokensKept
<1>5. QED
  BY <1>3, <1>4 DEF TokenInv

-----------------------------------------------------------------------------
(* What several steps have in common.                                      *)

\* A step that issues nothing and rotates nothing may forget a refresh token that
\* has expired or was issued before the server started, and mark none unused again.
LEMMA ForgettingKeeps ==
  ASSUME TokenInv, UNCHANGED <<age, rotations>>,
         stored' \subseteq stored, stored' \ used' \subseteq stored \ used,
         sinceStart' \subseteq sinceStart,
         \A i \in sinceStart' : i \in stored => RefreshExpired(i) \/ i \in stored'
  PROVE  RotatedOnce' /\ UnusedUnrotated' /\ LiveTokensKept'
<1>1. RotatedOnce' /\ UnusedUnrotated'
  BY DEF TokenInv, TypeOK, RotatedOnce, UnusedUnrotated
<1>2. \A i \in sinceStart' : RefreshExpired(i) => RefreshExpired(i)'
  BY DEF RefreshExpired
<1>3. LiveTokensKept'
  BY <1>2 DEF TokenInv, LiveTokensKept
<1>4. QED
  BY <1>1, <1>3

\* Issuing a pair keeps the types of what issue() writes, and the new refresh token
\* is in the dictionary.
LEMMA IssueKeeps ==
  ASSUME TokenInv, NEW h \in HMIs, NEW i \in Fresh, Issue(h, i)
  PROVE  /\ i \in Ids /\ i \notin stored
         /\ age' \in [Ids -> 0 .. MaxAge]
         /\ owner' \in [Ids -> HMIs] /\ signedBy' \in [Ids -> Keys]
         /\ stored' \subseteq Ids /\ sinceStart' \subseteq Ids /\ revoked' \subseteq Ids
         /\ listed' \subseteq Ids
         /\ LiveTokensKept'
<1>1. i \in Ids /\ i \notin stored
  BY DEF Fresh
<1>2. age' \in [Ids -> 0 .. MaxAge]
  BY <1>1, MaxAgeIsExpired DEF TokenInv, TypeOK, Issue
<1>3. owner' \in [Ids -> HMIs] /\ signedBy' \in [Ids -> Keys]
  BY <1>1 DEF TokenInv, TypeOK, Issue
<1>4. /\ stored' \subseteq Ids /\ sinceStart' \subseteq Ids /\ revoked' \subseteq Ids
      /\ listed' \subseteq Ids
  BY <1>1 DEF TokenInv, TypeOK, Issue
<1>5. LiveTokensKept'
  <2> SUFFICES ASSUME NEW j \in sinceStart'
               PROVE  RefreshExpired(j)' \/ j \in stored'
    BY DEF LiveTokensKept
  <2>1. CASE j = i
    BY <2>1 DEF Issue
  <2>2. CASE j # i
    <3>1. j \in sinceStart /\ j \in Ids /\ age'[j] = age[j]
      BY <1>1, <2>2 DEF TokenInv, TypeOK, Issue
    <3>2. QED
      BY <3>1 DEF TokenInv, LiveTokensKept, RefreshExpired, Issue
  <2>3. QED
    BY <2>1, <2>2
<1>6. QED
  BY <1>1, <1>2, <1>3, <1>4, <1>5

-----------------------------------------------------------------------------
(* One lemma per action that touches the tokens.                           *)

LEMMA LoginInv ==
  ASSUME TokenInv, NEW h \in HMIs, NEW i \in Ids, NEW answered \in BOOLEAN,
         Login(h, i, answered)
  PROVE  TokenInv'
<1>1. i \in Fresh /\ Issue(h, i)
  BY DEF Login
<1>2. i \notin stored /\ LiveTokensKept'
  BY <1>1, IssueKeeps
<1>3. holds' \in [HMIs -> Ids \cup {None}] /\ rotations' \in [Ids -> Nat]
  BY DEF TokenInv, TypeOK, Login
<1>4. used' \subseteq stored'
  BY <1>1 DEF TokenInv, TypeOK, Login, Issue
<1>5. /\ serverKey' = serverKey /\ rpiKey' = rpiKey /\ skew' = skew
      /\ offline' = offline /\ offline \in BOOLEAN
  BY DEF TokenInv, TypeOK, Login
<1>6. TypeOK'
  <2>1. offline' \in BOOLEAN
    BY <1>5
  <2>2. /\ age' \in [Ids -> 0 .. MaxAge]
        /\ owner' \in [Ids -> HMIs] /\ signedBy' \in [Ids -> Keys]
        /\ stored' \subseteq Ids /\ sinceStart' \subseteq Ids /\ revoked' \subseteq Ids
        /\ listed' \subseteq Ids
    BY <1>1, IssueKeeps
  <2>3. QED
    BY <1>3, <1>4, <1>5, <2>1, <2>2 DEF TokenInv, TypeOK
<1>7. RotatedOnce' /\ UnusedUnrotated'
  <2>1. \A j \in Ids : rotations'[j] = IF j = i THEN 0 ELSE rotations[j]
    BY DEF TokenInv, TypeOK, Login
  <2>2. stored' = stored \cup {i} /\ used' = used
    BY DEF Login, Issue
  <2>3. QED
    BY <2>1, <2>2 DEF TokenInv, TypeOK, RotatedOnce, UnusedUnrotated
<1>8. QED
  BY <1>2, <1>6, <1>7 DEF TokenInv

\* The token that is exchanged was never exchanged before, and is used from now on.
LEMMA RefreshInv ==
  ASSUME TokenInv, NEW h \in HMIs, NEW i \in Ids, NEW answered \in BOOLEAN,
         Refresh(h, i, answered)
  PROVE  TokenInv'
<1>1. i \in Fresh /\ Issue(h, i)
  BY DEF Refresh
<1>2. i \notin stored /\ LiveTokensKept'
  BY <1>1, IssueKeeps
<1>3. PICK old \in Ids : old = holds[h] /\ old \in stored \ used
  BY DEF TokenInv, TypeOK, Refresh, MayRotate
<1>4. /\ rotations' = [rotations EXCEPT ![old] = @ + 1, ![i] = 0]
      /\ used' = used \cup {old} /\ stored' = stored \cup {i}
      /\ holds' = [holds EXCEPT ![h] = IF answered THEN i ELSE @]
  BY <1>3 DEF Refresh, MarkUsed, Issue
<1>5. rotations' \in [Ids -> Nat]
      /\ \A j \in Ids : rotations'[j] = IF j = i THEN 0
                                        ELSE IF j = old THEN rotations[j] + 1
                                        ELSE rotations[j]
  BY <1>2, <1>3, <1>4 DEF TokenInv, TypeOK
<1>6. TypeOK'
  <2>1. holds' \in [HMIs -> Ids \cup {None}] /\ used' \subseteq stored'
    BY <1>3, <1>4 DEF TokenInv, TypeOK
  <2>2. /\ age' \in [Ids -> 0 .. MaxAge]
        /\ owner' \in [Ids -> HMIs] /\ signedBy' \in [Ids -> Keys]
        /\ stored' \subseteq Ids /\ sinceStart' \subseteq Ids /\ revoked' \subseteq Ids
        /\ listed' \subseteq Ids
    BY <1>1, IssueKeeps
  <2>3. serverKey' = serverKey /\ rpiKey' = rpiKey /\ skew' = skew /\ offline' = offline
    BY DEF Refresh
  <2>4. offline' \in BOOLEAN
    BY <2>3 DEF TokenInv, TypeOK
  <2>5. QED
    BY <1>5, <2>1, <2>2, <2>3, <2>4 DEF TokenInv, TypeOK
<1>7. RotatedOnce' /\ UnusedUnrotated'
  <2>1. rotations[old] = 0
    BY <1>3 DEF TokenInv, UnusedUnrotated
  <2>2. RotatedOnce'
    BY <1>5, <2>1 DEF TokenInv, TypeOK, RotatedOnce
  <2>3. UnusedUnrotated'
    BY <1>3, <1>4, <1>5 DEF TokenInv, TypeOK, UnusedUnrotated
  <2>4. QED
    BY <2>2, <2>3
<1>8. QED
  BY <1>2, <1>6, <1>7 DEF TokenInv

LEMMA RefreshRefusedInv ==
  ASSUME TokenInv, NEW h \in HMIs, RefreshRefused(h)
  PROVE  TokenInv'
<1>1. /\ stored' \subseteq stored /\ used' = used /\ used \subseteq stored'
      /\ \A i \in stored : RefreshExpired(i) \/ i \in stored'
  BY DEF TokenInv, TypeOK, RefreshRefused, MayRotate
<1>2. /\ UNCHANGED <<age, owner, signedBy, revoked, serverKey, rotations, sinceStart>>
      /\ UNCHANGED rpiVars
  BY DEF RefreshRefused
<1>3. RotatedOnce' /\ UnusedUnrotated' /\ LiveTokensKept'
  BY <1>1, <1>2, ForgettingKeeps
<1>4. holds' \in [HMIs -> Ids \cup {None}]
  BY DEF TokenInv, TypeOK, RefreshRefused
<1>5. offline' \in BOOLEAN
  BY <1>2 DEF TokenInv, TypeOK, rpiVars
<1>6. TypeOK'
  BY <1>1, <1>2, <1>4, <1>5 DEF TokenInv, TypeOK, rpiVars
<1>7. QED
  BY <1>3, <1>5, <1>6 DEF TokenInv

LEMMA PurgeInv ==
  ASSUME TokenInv, PurgeExpiredRefresh
  PROVE  TokenInv'
<1>1. /\ stored' = stored \ Purgeable /\ used' = used \ Purgeable
      /\ UNCHANGED <<age, owner, signedBy, revoked, serverKey, rotations, sinceStart>>
      /\ UNCHANGED <<rpiVars, holds>>
  BY DEF PurgeExpiredRefresh
<1>2. \A i \in stored : RefreshExpired(i) \/ i \in stored'
  BY <1>1 DEF Purgeable
<1>3. RotatedOnce' /\ UnusedUnrotated' /\ LiveTokensKept'
  BY <1>1, <1>2, ForgettingKeeps
<1>4. offline' \in BOOLEAN
  BY <1>1 DEF TokenInv, TypeOK, rpiVars
<1>5. TypeOK'
  BY <1>1, <1>4 DEF TokenInv, TypeOK, rpiVars
<1>6. QED
  BY <1>3, <1>4, <1>5 DEF TokenInv

LEMMA RevokeInv ==
  ASSUME TokenInv, NEW i \in Ids, Revoke(i)
  PROVE  TokenInv'
<1>1. /\ UNCHANGED <<age, owner, signedBy, stored, used, serverKey, rotations, sinceStart>>
      /\ UNCHANGED <<rpiVars, holds>> /\ revoked' = revoked \cup {i}
  BY DEF Revoke
<1>2. RotatedOnce' /\ UnusedUnrotated' /\ LiveTokensKept'
  BY <1>1, ForgettingKeeps
<1>3. offline' \in BOOLEAN
  BY <1>1 DEF TokenInv, TypeOK, rpiVars
<1>4. TypeOK'
  BY <1>1, <1>3 DEF TokenInv, TypeOK, rpiVars
<1>5. QED
  BY <1>2, <1>3, <1>4 DEF TokenInv

LEMMA ServerRestartInv ==
  ASSUME TokenInv, NEW k \in Keys, ServerRestart(k)
  PROVE  TokenInv'
<1>1. /\ serverKey' = k /\ stored' = {} /\ used' = {} /\ revoked' = {} /\ sinceStart' = {}
      /\ UNCHANGED <<age, owner, signedBy, rotations, rpiVars, holds>>
  BY DEF ServerRestart
<1>2. RotatedOnce' /\ UnusedUnrotated' /\ LiveTokensKept'
  BY <1>1, ForgettingKeeps
<1>3. offline' \in BOOLEAN
  BY <1>1 DEF TokenInv, TypeOK, rpiVars
<1>4. TypeOK'
  BY <1>1, <1>3 DEF TokenInv, TypeOK, rpiVars
<1>5. QED
  BY <1>2, <1>3, <1>4 DEF TokenInv

\* The steps of the RPi alone touch neither pairs nor the dictionary.
LEMMA RPiStepInv ==
  ASSUME TokenInv, UNCHANGED serverVars, UNCHANGED holds,
         rpiKey' \in Keys, offline' \in BOOLEAN, skew' = skew,
         listed' \subseteq Ids
  PROVE  TokenInv'
<1>1. UNCHANGED <<age, owner, signedBy, stored, used, revoked, serverKey, rotations,
                  sinceStart>>
  BY DEF serverVars
<1>2. RotatedOnce' /\ UnusedUnrotated' /\ LiveTokensKept'
  BY <1>1, ForgettingKeeps
<1>3. TypeOK'
  BY <1>1 DEF TokenInv, TypeOK
<1>4. QED
  BY <1>2, <1>3 DEF TokenInv

LEMMA RPiInv ==
  ASSUME TokenInv,
         \/ \E S \in SUBSET Ids : RevokeBatch(S)
         \/ \E k \in Keys : RPiRestart(k)
         \/ ClearRevocationList \/ ReloadPublicKey \/ HealthCheck
  PROVE  TokenInv'
<1>1. ASSUME NEW S \in SUBSET Ids, RevokeBatch(S)
      PROVE  TokenInv'
  <2>1. /\ UNCHANGED <<serverVars, rpiKey, skew, offline, holds>>
        /\ listed' = listed \cup S
    BY <1>1 DEF RevokeBatch
  <2>2. offline' \in BOOLEAN
    BY <2>1 DEF TokenInv, TypeOK
  <2>3. rpiKey' \in Keys /\ listed' \subseteq Ids
    BY <2>1 DEF TokenInv, TypeOK
  <2>4. QED
    BY <2>1, <2>2, <2>3, RPiStepInv
<1>2. ASSUME NEW k \in Keys, RPiRestart(k)
      PROVE  TokenInv'
  <2>1. /\ UNCHANGED <<serverVars, skew, holds>> /\ rpiKey' = k
        /\ listed' = {} /\ offline' = FALSE
    BY <1>2 DEF RPiRestart
  <2>2. offline' \in BOOLEAN /\ listed' \subseteq Ids
    BY <2>1
  <2>3. QED
    BY <2>1, <2>2, RPiStepInv
<1>3. CASE ClearRevocationList
  <2>1. /\ UNCHANGED <<serverVars, rpiKey, skew, offline, holds>>
        /\ listed' = {}
    BY <1>3 DEF ClearRevocationList
  <2>2. offline' \in BOOLEAN
    BY <2>1 DEF TokenInv, TypeOK
  <2>3. rpiKey' \in Keys /\ listed' \subseteq Ids
    BY <2>1 DEF TokenInv, TypeOK
  <2>4. QED
    BY <2>1, <2>2, <2>3, RPiStepInv
<1>4. CASE ReloadPublicKey \/ HealthCheck
  <2>1. /\ UNCHANGED <<serverVars, skew, holds, listed>>
        /\ rpiKey' \in {rpiKey, serverKey}
    BY <1>4 DEF ReloadPublicKey, HealthCheck
  <2>2. offline' \in BOOLEAN
    BY <1>4 DEF ReloadPublicKey, HealthCheck, TokenInv, TypeOK
  <2>3. rpiKey' \in Keys /\ listed' \subseteq Ids
    BY <2>1 DEF TokenInv, TypeOK
  <2>4. QED
    BY <2>1, <2>2, <2>3, RPiStepInv
<1>5. QED
  BY <1>1, <1>2, <1>3, <1>4

\* What has expired stays so.
LEMMA TickInv ==
  ASSUME TokenInv, Tick
  PROVE  TokenInv'
<1>1. /\ UNCHANGED <<owner, signedBy, stored, used, revoked, serverKey, rotations, sinceStart>>
      /\ UNCHANGED <<rpiVars, holds>>
  BY DEF Tick
<1>2. age' \in [Ids -> 0 .. MaxAge] /\ \A i \in Ids : age'[i] >= age[i]
  BY MaxAgeIsExpired DEF TokenInv, TypeOK, Tick
<1>3. offline' \in BOOLEAN
  BY <1>1 DEF TokenInv, TypeOK, rpiVars
<1>4. TypeOK'
  BY <1>1, <1>2, <1>3 DEF TokenInv, TypeOK, rpiVars
<1>5. RotatedOnce' /\ UnusedUnrotated'
  BY <1>1 DEF TokenInv, RotatedOnce, UnusedUnrotated
<1>6. LiveTokensKept'
  <2>1. \A i \in Ids : RefreshExpired(i) => RefreshExpired(i)'
    BY <1>2, MaxAgeIsExpired DEF TokenInv, TypeOK, RefreshExpired
  <2>2. QED
    BY <1>1, <2>1 DEF TokenInv, TypeOK, LiveTokensKept
<1>7. QED
  BY <1>3, <1>4, <1>5, <1>6 DEF TokenInv

LEMMA NextInv == TokenInv /\ [Next]_vars => TokenInv'
<1> SUFFICES ASSUME TokenInv, [Next]_vars PROVE TokenInv'
  OBVIOUS
<1>1. CASE UNCHANGED vars
  BY <1>1 DEF vars, serverVars, rpiVars, TokenInv, TypeOK, RotatedOnce,
              UnusedUnrotated, LiveTokensKept, RefreshExpired
<1>2. CASE Next
  BY <1>2, LoginInv, RefreshInv, RefreshRefusedInv, PurgeInv, RevokeInv,
     ServerRestartInv, RPiInv, TickInv DEF Next
<1>3. QED
  BY <1>1, <1>2

-----------------------------------------------------------------------------
(* The theorems.                                                           *)

\* Ages, keys, lists and dictionaries keep their types, and only what is stored is
\* used (auth.py, jwt_verifier.py).
THEOREM TokensCorrect == Spec => []TokenInv
  BY InitInv, NextInv, PTL DEF Spec

\* No refresh token is exchanged twice, whatever answers are lost, and whatever is
\* purged or restarted (VTRAuth.refresh).
THEOREM ExchangedOnce == Spec => []RotatedOnce
<1>1. TokenInv => RotatedOnce
  BY DEF TokenInv
<1>2. QED
  BY <1>1, TokensCorrect, PTL

\* The server keeps every refresh token that is still good while it runs
\* (VTRAuth.purge_expired_refresh).
THEOREM GoodTokensStay == Spec => []LiveTokensKept
<1>1. TokenInv => LiveTokensKept
  BY DEF TokenInv
<1>2. QED
  BY <1>1, TokensCorrect, PTL

\* Whatever RPiJWTVerifier.verify() accepts, VTRAuth.verify() accepts at the same
\* reading of the clock, but for what lies between the two graces and for revoked
\* tokens the RPi was never told of or has forgotten: what is in its list it refuses
\* in the grace as well.
THEOREM NoLaxVerifier == Spec => []VerifiersAgree
<1>1. TokenInv => VerifiersAgree
  <2> SUFFICES ASSUME TokenInv, rpiKey = serverKey, NEW i \in Ids, NEW s \in Scopes,
                      RPiAccepts(i, s), i \notin revoked \ listed,
                      age[i] + skew - AccessTTL \notin (ServerGrace + 1) .. RPiGrace
               PROVE  ServerAccepts(i, s, age[i] + skew, TRUE)
    BY DEF VerifiersAgree
  <2>1. PICK since \in Int : since = age[i] + skew
    BY MaxAgeIsExpired DEF TokenInv, TypeOK
  <2>2. Decodes(i, rpiKey, since) /\ PayloadValid(i, s)
    BY <2>1 DEF RPiAccepts, RPiVerify, TryGrace
  <2>3. since >= AccessTTL => since - AccessTTL <= RPiGrace
    BY <2>1 DEF RPiAccepts, RPiVerify, TryGrace
  <2>4. since >= AccessTTL => since - AccessTTL <= ServerGrace
    <3>1. age[i] \in Int /\ skew \in Int
      BY MaxAgeIsExpired DEF TokenInv, TypeOK
    <3>2. since - AccessTTL \notin (ServerGrace + 1) .. RPiGrace
      BY <2>1, <3>1
    <3>3. QED
      BY <2>3, <3>2
  <2>5. i \notin revoked /\ s \in ScopesOf[owner[i]]
    BY <2>2 DEF PayloadValid
  <2>6. Decodes(i, serverKey, since) /\ (since >= AccessTTL => ServerTryGrace(since))
    BY <2>2, <2>4 DEF ServerTryGrace
  <2>7. ServerAccepts(i, s, since, TRUE)
    BY <2>5, <2>6 DEF ServerAccepts
  <2>8. QED
    BY <2>1, <2>7
<1>2. QED
  BY <1>1, TokensCorrect, PTL
=============================================================================
