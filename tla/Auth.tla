-------------------------------- MODULE Auth --------------------------------
(***************************************************************************)
(* How a device proves who it is and how it stops being let in:            *)
(* challenges, access tokens and WebSocket tickets (server/src/http/       *)
(* auth.rs), registration and revocation (http/devices.rs), the upgrade of *)
(* a publisher's and of a mirror's connection (http/ws.rs), the signing    *)
(* keys and their rotation (app.rs TokenService) and the rows behind them  *)
(* (db/repo.rs).                                                           *)
(*                                                                         *)
(* One device key, whose role lets it publish and mirror (DeviceRole::Both *)
(* in crypto.rs), and one server process that may be restarted.  A request *)
(* is cut where its handler waits for the database.                        *)
(*                                                                         *)
(* Left out: cryptography - a signature is good or not, a token names the  *)
(* key that signed it - scopes, the roles that may do less, rate limits    *)
(* and connection limits, which are looked at without a wait and change    *)
(* nothing here, and the identity's own token.                             *)
(***************************************************************************)
EXTENDS Integers, FiniteSets

CONSTANTS
  Requests,     \* request handlers
  Challenges, Tickets,
  MaxTokens,    \* bound on tokens minted
  MaxKeys,      \* bound on signing keys
  MaxTime,      \* bound on the clock
  ChallengeTTL, TicketTTL, TokenTTL,
  Skew,         \* auth.max_clock_skew_seconds
  Kept,         \* the hour an expired challenge or ticket is kept
  Overlap,      \* auth.signing_key_overlap_seconds
  Rotation      \* auth.signing_key_rotation_seconds

ASSUME AuthAssumption ==
  /\ {MaxTokens, MaxKeys, MaxTime, ChallengeTTL, TicketTTL, TokenTTL, Skew, Kept,
      Overlap, Rotation} \subseteq Nat
  /\ MaxKeys > 0
  /\ Challenges \cap Tickets = {}    \* rows of two tables

Keys == 1..MaxKeys
Forever == MaxTime + Overlap + 1

VARIABLES
  now,
  challenge,    \* [Challenges -> [state, op, expires]]
  ticket,       \* [Tickets -> [state, op, expires, after]]; after is history:
                \* the device was revoked when the ticket was inserted
  tokens,       \* access tokens minted: [kid, iat]
  device,       \* the device row: "none", "active" or "revoked"
  cutoff,       \* principal_token_cutoffs, or -1
  newest,       \* the active row of signing_keys
  created,      \* [Keys -> created_at]
  notAfter,     \* [Keys -> not_after, Forever while active]
  stored,       \* the rows of signing_keys
  cache,        \* the keys the process verifies with
  minting,      \* the one of them it signs with
  rotating,     \* rotate_if_needed has inserted a key, and refreshes next
  phase,        \* [Requests -> where the handler is]
  late,         \* history: requests authenticated after the revocation
  stray,        \* history: those of them let in by a ticket inserted after it
  accepted      \* history: [Challenges \cup Tickets -> times accepted]

rowVars == <<challenge, ticket, device, cutoff>>
keyVars == <<newest, created, notAfter, stored, cache, minting, rotating>>
requestVars == <<phase, late, stray, accepted>>
vars == <<now, rowVars, tokens, keyVars, requestVars>>

Unissued == [state |-> "none", op |-> "none", expires |-> 0]
NoTicket == [state |-> "none", op |-> "none", expires |-> 0, after |-> FALSE]

(* refresh has minted the first key. *)
AuthInit ==
  /\ now = 0
  /\ challenge = [h \in Challenges |-> Unissued]
  /\ ticket = [k \in Tickets |-> NoTicket]
  /\ tokens = {} /\ device = "none" /\ cutoff = -1
  /\ newest = 1 /\ created = [k \in Keys |-> 0]
  /\ notAfter = [k \in Keys |-> Forever]
  /\ stored = {1} /\ cache = {1} /\ minting = 1 /\ rotating = FALSE
  /\ phase = [r \in Requests |-> "idle"] /\ late = {} /\ stray = {}
  /\ accepted = [x \in Challenges \cup Tickets |-> 0]

Goes(r, to) == phase' = [phase EXCEPT ![r] = to]
Accepts(x) == accepted' = [accepted EXCEPT ![x] = @ + 1]

(* The two paths a WebSocket is asked for, and what the handler of each    *)
(* has still to do once the caller is known.                               *)
Paths == {"relay", "mirror"}
Upgrading(path) == IF path = "relay" THEN "upgrading" ELSE "mirrorUpgrade"

(* A credential is good now: the request counts as late if the device was  *)
(* revoked before, and as stray if the credential is younger than that.    *)
Authenticated(r, to, after) ==
  /\ Goes(r, to)
  /\ late' = IF device = "revoked" THEN late \cup {r} ELSE late \ {r}
  /\ stray' = IF after THEN stray \cup {r} ELSE stray \ {r}

-----------------------------------------------------------------------------
(* Challenges. *)

(* create_challenge. *)
CreateChallenge(h, op) ==
  /\ challenge[h].state = "none"
  /\ challenge' = [challenge EXCEPT ![h] =
       [state |-> "issued", op |-> op, expires |-> now + ChallengeTTL]]
  /\ UNCHANGED <<now, ticket, tokens, device, cutoff, keyVars, requestVars>>

(* Mutant: only an attempt that verifies consumes the challenge. *)
ClaimIfGood(h, good) ==
  challenge' = IF good THEN [challenge EXCEPT ![h].state = "consumed"] ELSE challenge

(* claim_challenge: the attempt itself consumes it, expired or not. *)
ClaimChallenge(h, good) ==
  challenge' = [challenge EXCEPT ![h].state = "consumed"]

(* verify_challenge: claim, then look at expiry and signature. *)
VerifyChallenge(r, h, good) ==
  /\ phase[r] = "idle" /\ challenge[h].state = "issued"
  /\ ClaimChallenge(h, good)
  /\ Accepts(h)
  /\ IF now <= challenge[h].expires /\ good
     THEN Goes(r, challenge[h].op) ELSE UNCHANGED phase
  /\ UNCHANGED <<now, ticket, tokens, device, cutoff, keyVars, late, stray>>

(* register: a second row for the key is refused by the UNIQUE index. *)
InsertDevice(r) ==
  /\ phase[r] = "register"
  /\ Goes(r, "idle")
  /\ device' = IF device = "none" THEN "active" ELSE device
  /\ UNCHANGED <<now, challenge, ticket, tokens, cutoff, keyVars, late, stray, accepted>>

(* create_token: the row is read, and the token minted after more waiting  *)
(* (touch_device).                                                         *)
ReadDevice(r) ==
  /\ phase[r] = "token"
  /\ Goes(r, IF device = "active" THEN "minting" ELSE "idle")
  /\ UNCHANGED <<now, rowVars, tokens, keyVars, late, stray, accepted>>

Mint(r) ==
  /\ phase[r] = "minting" /\ Cardinality(tokens) < MaxTokens
  /\ Goes(r, "idle")
  /\ tokens' = tokens \cup {[kid |-> minting, iat |-> now]}
  /\ UNCHANGED <<now, rowVars, keyVars, late, stray, accepted>>

-----------------------------------------------------------------------------
(* Tokens and tickets. *)

(* TokenService::verify. *)
Verifies(t) == t.kid \in cache /\ now <= t.iat + TokenTTL + Skew

(* Mutant: the cutoff alone decides, not the device's row. *)
RevokedByCutoff(t) == cutoff >= t.iat

Revoked(t) == cutoff >= t.iat \/ device # "active"

(* The Auth extractor, for a request under /v1 that asks for a ticket. *)
AuthRequest(r, t) ==
  /\ phase[r] = "idle" /\ Verifies(t) /\ ~Revoked(t)
  /\ Authenticated(r, "authorised", FALSE)
  /\ UNCHANGED <<now, rowVars, tokens, keyVars, accepted>>

(* create_websocket_ticket, for either path: the insert is a database call *)
(* of its own, for a mirror after another that reads the terminal, and     *)
(* does not look at the device again.                                      *)
InsertTicket(r, k, op) ==
  /\ phase[r] = "authorised" /\ ticket[k].state = "none"
  /\ Goes(r, "idle")
  /\ ticket' = [ticket EXCEPT ![k] =
       [state |-> "issued", op |-> op, expires |-> now + TicketTTL,
        after |-> device = "revoked"]]
  /\ UNCHANGED <<now, challenge, tokens, device, cutoff, keyVars, late, stray, accepted>>

(* authenticate_upgrade, with a token: the device's row is looked at. *)
UpgradeWithToken(r, t, path) ==
  /\ phase[r] = "idle" /\ Verifies(t) /\ ~Revoked(t)
  /\ Authenticated(r, Upgrading(path), FALSE)
  /\ UNCHANGED <<now, rowVars, tokens, keyVars, accepted>>

(* consume_ticket: any attempt consumes it, and a wrong path or a late one *)
(* is refused.  The device's row is not looked at.                         *)
UpgradeWithTicket(r, k, path) ==
  /\ phase[r] = "idle" /\ ticket[k].state = "issued"
  /\ ticket' = [ticket EXCEPT ![k].state = "consumed"]
  /\ Accepts(k)
  /\ IF now <= ticket[k].expires /\ path = ticket[k].op
     THEN Authenticated(r, Upgrading(path), ticket[k].after)
     ELSE UNCHANGED <<phase, late, stray>>
  /\ UNCHANGED <<now, challenge, tokens, device, cutoff, keyVars>>

(* relay_upgrade: the row is read again before the slot is taken. *)
ReadRow(r) ==
  /\ phase[r] = "upgrading"
  /\ Goes(r, IF device = "active" THEN "attaching" ELSE "idle")
  /\ UNCHANGED <<now, rowVars, tokens, keyVars, late, stray, accepted>>

AttachPublisher(r) ==
  /\ phase[r] = "attaching"
  /\ Goes(r, "attached")
  /\ UNCHANGED <<now, rowVars, tokens, keyVars, late, stray, accepted>>

(* mirror_upgrade: the row is read for its role and its identity, and not  *)
(* for revoked_at; then the mirror is subscribed.                          *)
AttachMirror(r) ==
  /\ phase[r] = "mirrorUpgrade"
  /\ Goes(r, "mirroring")
  /\ UNCHANGED <<now, rowVars, tokens, keyVars, late, stray, accepted>>

Hangup(r) ==
  /\ phase[r] \in {"attached", "mirroring"}
  /\ Goes(r, "idle")
  /\ UNCHANGED <<now, rowVars, tokens, keyVars, late, stray, accepted>>

(* revoke_device: row, cutoff and unconsumed tickets in one transaction. *)
Revoke ==
  /\ device = "active"
  /\ device' = "revoked" /\ cutoff' = now
  /\ ticket' = [k \in Tickets |-> IF ticket[k].state = "issued"
                                  THEN [ticket[k] EXCEPT !.state = "deleted"] ELSE ticket[k]]
  /\ UNCHANGED <<now, challenge, tokens, keyVars, requestVars>>

-----------------------------------------------------------------------------
(* Signing keys. *)

(* Mutant: the outgoing key is of no use any more. *)
InsertSigningKeyAtOnce(k) ==
  /\ notAfter' = [notAfter EXCEPT ![newest] = now]
  /\ created' = [created EXCEPT ![k] = now]
  /\ newest' = k /\ stored' = stored \cup {k}

(* insert_signing_key: the outgoing key verifies for the overlap. *)
InsertSigningKey(k) ==
  /\ notAfter' = [notAfter EXCEPT ![newest] = now + Overlap]
  /\ created' = [created EXCEPT ![k] = now]
  /\ newest' = k /\ stored' = stored \cup {k}

(* rotate_if_needed, in the maintenance task: due by the age of the key    *)
(* the process signs with, which a refresh that failed left behind.        *)
Rotate ==
  /\ ~rotating /\ now - created[minting] > Rotation /\ newest < MaxKeys
  /\ InsertSigningKey(newest + 1)
  /\ rotating' = TRUE
  /\ UNCHANGED <<now, rowVars, tokens, cache, minting, requestVars>>

(* refresh: keys whose overlap is over stop verifying. *)
Refresh ==
  /\ cache' = {k \in stored : notAfter[k] >= now}
  /\ minting' = newest /\ rotating' = FALSE

FinishRotation ==
  /\ rotating /\ Refresh
  /\ UNCHANGED <<now, rowVars, tokens, newest, created, notAfter, stored, requestVars>>

(* refresh fails on its own database call: rotate_if_needed is left with   *)
(* an error that is only logged, and the process goes on signing with the  *)
(* key the row of which was given an end, until a later sweep or a start.  *)
RefreshFails ==
  /\ rotating /\ rotating' = FALSE
  /\ UNCHANGED <<now, rowVars, tokens, newest, created, notAfter, stored, cache, minting,
                 requestVars>>

(* The process stops in the middle of anything and loads the keys again. *)
Restart ==
  /\ Refresh
  /\ phase' = [r \in Requests |-> "idle"] /\ late' = {} /\ stray' = {}
  /\ UNCHANGED <<now, rowVars, tokens, newest, created, notAfter, stored, accepted>>

Swept(row) ==
  IF row.state \in {"issued", "consumed"} /\ row.expires + Kept < now
  THEN [row EXCEPT !.state = "deleted"] ELSE row

(* run_maintenance: rows that expired long enough ago are deleted.  The    *)
(* rotation is the same task's, and comes after.                           *)
Maintain ==
  /\ ~rotating
  /\ stored' = {k \in stored : notAfter[k] >= now}
  /\ ticket' = [k \in Tickets |-> Swept(ticket[k])]
  /\ challenge' = [h \in Challenges |-> Swept(challenge[h])]
  /\ UNCHANGED <<now, tokens, device, cutoff, newest, created, notAfter, cache,
                 minting, rotating, requestVars>>

Tick ==
  /\ now < MaxTime
  /\ now' = now + 1
  /\ UNCHANGED <<rowVars, tokens, keyVars, requestVars>>

-----------------------------------------------------------------------------
Next ==
  \/ \E h \in Challenges : \/ \E op \in {"register", "token"} : CreateChallenge(h, op)
                           \/ \E r \in Requests, good \in BOOLEAN : VerifyChallenge(r, h, good)
  \/ \E r \in Requests :
       \/ InsertDevice(r) \/ ReadDevice(r) \/ Mint(r)
       \/ ReadRow(r) \/ AttachPublisher(r) \/ AttachMirror(r) \/ Hangup(r)
       \/ \E t \in tokens : AuthRequest(r, t) \/ \E path \in Paths : UpgradeWithToken(r, t, path)
       \/ \E k \in Tickets, path \in Paths :
            InsertTicket(r, k, path) \/ UpgradeWithTicket(r, k, path)
  \/ Revoke \/ Rotate \/ FinishRotation \/ RefreshFails \/ Restart \/ Maintain \/ Tick

AuthSpec == AuthInit /\ [][Next]_vars

-----------------------------------------------------------------------------
(* The token expires within the overlap that its key was given when the    *)
(* next key was inserted.  Every token signed before that does, if the     *)
(* overlap is no shorter than a token's life; one signed with the key      *)
(* after its end was set - before refresh, or for as long as refresh       *)
(* fails - needs as much overlap more.                                     *)
Covered(t) == t.kid = newest \/ created[t.kid + 1] + Overlap >= t.iat + TokenTTL

(* A covered token verifies until it expires: no rotation, no refresh that *)
(* failed and was made up for by a later rotation, no pruning and no       *)
(* restart makes the server forget its key.  (server/README.md: "tokens    *)
(* minted just before a rotation keep verifying".)                         *)
TokenLivesOut ==
  \A t \in tokens : now <= t.iat + TokenTTL /\ Covered(t) => Verifies(t)

(* Nobody who authenticates after the revocation is let in as a publisher  *)
(* or given a ticket, whichever handler had read the row before it.  Nor   *)
(* as a mirror, with one exception: mirror_upgrade does not look at        *)
(* revoked_at, so that a ticket serves which a handler, authenticated      *)
(* before the revocation, inserted after it.  A ticket inserted before it  *)
(* does not.                                                               *)
RevokedIsRefused ==
  \A r \in late :
    /\ phase[r] \notin {"authorised", "attaching", "attached"}
    /\ phase[r] \in {"mirrorUpgrade", "mirroring"} => r \in stray

(* A challenge or a ticket is taken at most once, whatever became of the   *)
(* attempt.                                                                *)
SingleUse == \A x \in Challenges \cup Tickets : accepted[x] <= 1
=============================================================================
