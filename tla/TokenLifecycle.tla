--------------------------- MODULE TokenLifecycle ---------------------------
(***************************************************************************)
(* Access and refresh tokens: VTRAuth issues, rotates, revokes and purges  *)
(* them (server/auth.py), RPiJWTVerifier checks access tokens on the RPi   *)
(* (rpi/jwt_verifier.py) with the scope and the grace that require_scope() *)
(* asks for (rpi/proxy_auth.py).                                           *)
(*                                                                         *)
(* A pair of tokens is one id; its access and its refresh token are random *)
(* and never repeat, so an id is given again only when no party could tell *)
(* it from a new one.  Time is the age of a pair, which stops at MaxAge,   *)
(* where every party refuses it.  VTRAuth has no lock and nothing in the   *)
(* repository calls it from two threads, so a call is one step.            *)
(***************************************************************************)
EXTENDS Integers, FiniteSets

CONSTANTS Ids,         \* bound: pairs that matter at one time
          HMIs,
          None,        \* no pair
          Keys,        \* key pairs of the server
          Scopes,
          ScopesOf,    \* the scopes each HMI logs in with
          AccessTTL, RefreshTTL,
          ServerGrace,  \* grace_period of VTRAuth
          RPiGrace,     \* grace_period of RPiJWTVerifier, configured apart
          MaxSkew      \* bound on the clock of the RPi against the server's

ASSUME TokenAssumption == /\ None \notin Ids
                          /\ ScopesOf \in [HMIs -> SUBSET Scopes]
                          /\ AccessTTL \in Nat \ {0}
                          /\ RefreshTTL \in Nat \ {0}
                          /\ ServerGrace \in Nat
                          /\ RPiGrace \in Nat
                          /\ MaxSkew \in Nat

VARIABLES age,         \* time since each pair was issued
          owner,       \* the HMI it was issued to
          signedBy,    \* the key that signed it
          stored,      \* keys of _refresh_tokens
          used,        \* those with used = True
          revoked,     \* VTRAuth._revoked_jtis
          serverKey,
          listed,      \* RPiJWTVerifier._revoked_jtis
          rpiKey,
          skew,        \* clock of the RPi minus clock of the server
          offline,     \* SyncManager.state.status = "OFFLINE"
          holds,       \* the pair each HMI holds
          sinceStart,  \* history: pairs issued since the server started
          rotations    \* history: pairs issued in exchange for each refresh token

serverVars == <<age, owner, signedBy, stored, used, revoked, serverKey, rotations,
                sinceStart>>
rpiVars == <<listed, rpiKey, skew, offline>>
vars == <<serverVars, rpiVars, holds>>

Greatest(m, n) == IF m >= n THEN m ELSE n

MaxAge == MaxSkew + 1 + Greatest(AccessTTL + Greatest(ServerGrace, RPiGrace), RefreshTTL)

TypeOK == /\ age \in [Ids -> 0 .. MaxAge]
          /\ owner \in [Ids -> HMIs]
          /\ signedBy \in [Ids -> Keys]
          /\ used \subseteq stored /\ stored \subseteq Ids
          /\ revoked \subseteq Ids
          /\ serverKey \in Keys /\ rpiKey \in Keys
          /\ offline \in BOOLEAN
          /\ sinceStart \subseteq Ids
          /\ listed \subseteq Ids
          /\ skew \in -MaxSkew .. MaxSkew
          /\ holds \in [HMIs -> Ids \cup {None}]
          /\ rotations \in [Ids -> Nat]

Init == /\ age = [i \in Ids |-> MaxAge]
        /\ owner \in {[i \in Ids |-> h] : h \in HMIs}
        /\ serverKey \in Keys
        /\ signedBy = [i \in Ids |-> serverKey]
        /\ stored = {} /\ used = {} /\ revoked = {} /\ sinceStart = {}
        /\ listed = {}
        /\ rpiKey = serverKey
        /\ skew \in -MaxSkew .. MaxSkew
        /\ offline = FALSE
        /\ holds = [h \in HMIs |-> None]
        /\ rotations = [i \in Ids |-> 0]

-----------------------------------------------------------------------------
(* The server.                                                             *)

\* A new jti and a new refresh token.
Fresh == {i \in Ids : /\ age[i] = MaxAge
                      /\ i \notin stored
                      /\ \A h \in HMIs : holds[h] # i}

\* issue(): a new access token and the record of a new refresh token.  That the
\* id is in no list yet is what being new means.
Issue(h, i) == /\ age' = [age EXCEPT ![i] = 0]
               /\ owner' = [owner EXCEPT ![i] = h]
               /\ signedBy' = [signedBy EXCEPT ![i] = serverKey]
               /\ stored' = stored \cup {i}
               /\ sinceStart' = sinceStart \cup {i}
               /\ revoked' = revoked \ {i}
               /\ listed' = listed \ {i}

RefreshExpired(i) == age[i] > RefreshTTL

MayRotate(i) == i \in stored \ used /\ ~RefreshExpired(i)

\* Mutant: the used token stays usable.
LeaveUnused(i) == used' = used

\* record["used"] = True.
MarkUsed(i) == used' = used \cup {i}

\* An HMI logs in; the answer may be lost.
Login(h, i, answered) ==
  /\ holds[h] = None
  /\ i \in Fresh
  /\ Issue(h, i)
  /\ rotations' = [rotations EXCEPT ![i] = 0]
  /\ holds' = [holds EXCEPT ![h] = IF answered THEN i ELSE @]
  /\ UNCHANGED <<used, serverKey, rpiKey, skew, offline>>

\* refresh(): the answer may be lost, and the HMI then holds a used token.
Refresh(h, i, answered) ==
  /\ holds[h] # None
  /\ MayRotate(holds[h])
  /\ i \in Fresh
  /\ MarkUsed(holds[h])
  /\ Issue(h, i)
  /\ rotations' = [rotations EXCEPT ![holds[h]] = @ + 1, ![i] = 0]
  /\ holds' = [holds EXCEPT ![h] = IF answered THEN i ELSE @]
  /\ UNCHANGED <<serverKey, rpiKey, skew, offline>>

\* PermissionError: unknown, used, or expired and then deleted.  The HMI has to
\* log in again.
RefreshRefused(h) ==
  /\ holds[h] # None
  /\ ~MayRotate(holds[h])
  /\ stored' = IF holds[h] \in used THEN stored ELSE stored \ {holds[h]}
  /\ holds' = [holds EXCEPT ![h] = None]
  /\ UNCHANGED <<age, owner, signedBy, used, revoked, serverKey, rotations,
                 sinceStart, rpiVars>>

\* Mutant: one tick too early.
PurgeLastTick == {i \in stored : age[i] >= RefreshTTL}

Purgeable == {i \in stored : RefreshExpired(i)}

PurgeExpiredRefresh ==
  /\ Purgeable # {}
  /\ stored' = stored \ Purgeable
  /\ used' = used \ Purgeable
  /\ UNCHANGED <<age, owner, signedBy, revoked, serverKey, rotations,
                 sinceStart, rpiVars, holds>>

\* revoke(): the refresh token of the pair stays as it is.
Revoke(i) == /\ age[i] < MaxAge
             /\ signedBy[i] = serverKey
             /\ revoked' = revoked \cup {i}
             /\ UNCHANGED <<age, owner, signedBy, stored, used, serverKey, rotations,
                            sinceStart, rpiVars, holds>>

\* A restart forgets the dictionary and the revocations; the key pair comes from
\* its file, where another may have been put.
ServerRestart(k) == /\ serverKey' = k
                    /\ stored' = {} /\ used' = {} /\ revoked' = {}
                    /\ sinceStart' = {}
                    /\ UNCHANGED <<age, owner, signedBy, rotations, rpiVars,
                                   holds>>

-----------------------------------------------------------------------------
(* The RPi.                                                                *)

\* revoke_batch() with revocations the server sends.
RevokeBatch(S) == /\ S \subseteq revoked
                  /\ listed' = listed \cup S
                  /\ UNCHANGED <<serverVars, rpiKey, skew, offline, holds>>

ClearRevocationList == /\ listed' = {}
                       /\ UNCHANGED <<serverVars, rpiKey, skew, offline, holds>>

\* The key file has the old key until somebody copies the new one.
ReloadPublicKey == /\ rpiKey # serverKey
                   /\ rpiKey' = serverKey
                   /\ UNCHANGED <<serverVars, listed, skew, offline, holds>>

RPiRestart(k) == /\ k \in {rpiKey, serverKey}
                 /\ rpiKey' = k
                 /\ listed' = {}
                 /\ offline' = FALSE
                 /\ UNCHANGED <<serverVars, skew, holds>>

\* The sync loop finds the server reachable or not; _is_server_offline() reads
\* what it found last.
HealthCheck == /\ offline' = ~offline
               /\ UNCHANGED <<serverVars, listed, rpiKey, skew, holds>>

Tick == /\ age' = [i \in Ids |-> IF age[i] < MaxAge THEN age[i] + 1 ELSE MaxAge]
        /\ UNCHANGED <<owner, signedBy, stored, used, revoked, serverKey, rotations,
                       sinceStart, rpiVars, holds>>

Next == \/ \E h \in HMIs : \/ \E i \in Ids, answered \in BOOLEAN :
                                Login(h, i, answered) \/ Refresh(h, i, answered)
                           \/ RefreshRefused(h)
        \/ PurgeExpiredRefresh
        \/ \E i \in Ids : Revoke(i)
        \/ \E k \in Keys : ServerRestart(k) \/ RPiRestart(k)
        \/ \E S \in SUBSET Ids : RevokeBatch(S)
        \/ ClearRevocationList
        \/ ReloadPublicKey
        \/ HealthCheck
        \/ Tick

Spec == Init /\ [][Next]_vars

-----------------------------------------------------------------------------
(* Verification, at a time when the verifier reckons that `since' has gone *)
(* by since the token was issued.  jwt.decode() refuses a token of another *)
(* key and, with iat, one that was issued in the future.                   *)

Decodes(i, k, since) == signedBy[i] = k /\ since >= 0

\* VTRAuth._try_grace().
ServerTryGrace(since) == since - AccessTTL <= ServerGrace

\* VTRAuth.verify().
ServerAccepts(i, s, since, allowGrace) ==
  /\ Decodes(i, serverKey, since)
  /\ since >= AccessTTL => allowGrace /\ ServerTryGrace(since)
  /\ i \notin revoked
  /\ s \in ScopesOf[owner[i]]

\* _validate_payload(), which both ways of RPiJWTVerifier.verify() end in.
PayloadValid(i, s) == i \notin listed /\ s \in ScopesOf[owner[i]]

\* Mutant: the revocation list is only looked at before the token expires.
GraceUnlisted(i, s, since) == since - AccessTTL <= RPiGrace /\ s \in ScopesOf[owner[i]]

TryGrace(i, s, since) == since - AccessTTL <= RPiGrace /\ PayloadValid(i, s)

\* RPiJWTVerifier.verify().
RPiVerify(i, s, since, allowGrace) ==
  /\ Decodes(i, rpiKey, since)
  /\ IF since < AccessTTL THEN PayloadValid(i, s)
                          ELSE allowGrace /\ TryGrace(i, s, since)

\* require_scope(): grace while the last health check has failed.
RPiAccepts(i, s) == /\ age[i] < MaxAge
                    /\ RPiVerify(i, s, age[i] + skew, offline)

-----------------------------------------------------------------------------
(* Properties.                                                             *)

\* "Refresh token opaco de un solo uso" (auth.py:9): a refresh token is exchanged
\* at most once, whatever answers are lost and retried, purged or restarted.
RotatedOnce == \A i \in Ids : rotations[i] <= 1

\* As long as the server runs, a refresh token that has not expired is in the
\* dictionary, so that its HMI is not locked out: purge_expired_refresh() and
\* refresh() agree on when a token has expired.
LiveTokensKept == \A i \in sinceStart : RefreshExpired(i) \/ i \in stored

\* At the same reading of the clock, grace allowed, the RPi accepts nothing the
\* server would refuse, except tokens between the two graces, which are configured
\* apart, and revoked tokens that are not in its list: those it was never told of,
\* and those it forgot, for clear_revocation_list() and a restart empty the list
\* though its tokens have not expired.  Two verifiers written apart agree on
\* expiry, scope and, as far as the list goes, revocation, in the grace too.
VerifiersAgree ==
  rpiKey = serverKey =>
    \A i \in Ids, s \in Scopes :
      /\ RPiAccepts(i, s)
      /\ i \notin revoked \ listed
      /\ age[i] + skew - AccessTTL \notin (ServerGrace + 1) .. RPiGrace
      => ServerAccepts(i, s, age[i] + skew, TRUE)

-----------------------------------------------------------------------------
(* What makes them inductive.                                              *)

\* A refresh token that is still in the dictionary and not used has not been
\* exchanged for anything.
UnusedUnrotated == \A i \in stored \ used : rotations[i] = 0

TokenInv == TypeOK /\ RotatedOnce /\ UnusedUnrotated /\ LiveTokensKept
=============================================================================
