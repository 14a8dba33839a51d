----------------------------- MODULE AuthProofs -----------------------------
(***************************************************************************)
(* What a challenge, a ticket, a token and a revocation are worth, for any *)
(* number of requests, rows, tokens and keys and any length of life.       *)
(*                                                                         *)
(* Three invariants, each about its own part of the state:                 *)
(*   - UseInv: a row that can still be claimed was never claimed before;   *)
(*   - RevocationInv: only a revoked device makes a request late, a        *)
(*     revoked device stays revoked, and a ticket it can still use was     *)
(*     inserted after the revocation;                                      *)
(*   - KeyInv: a key ends an overlap after the next one was inserted, and  *)
(*     until then it is stored and verifies.                               *)
(***************************************************************************)
EXTENDS Auth, TLAPS

RowStates == {"none", "issued", "consumed", "deleted"}
ChallengeRows ==
  {row \in [state : RowStates, op : {"none", "register", "token"}, expires : Nat] :
     row.state # "none" => row.op # "none"}
TicketRows == [state : RowStates, op : {"none", "relay", "mirror"}, expires : Nat, after : BOOLEAN]

(* The assumption, constant by constant. *)
LEMMA NatAssumption ==
  /\ MaxTokens \in Nat /\ MaxKeys \in Nat /\ MaxTime \in Nat /\ ChallengeTTL \in Nat
  /\ TicketTTL \in Nat /\ TokenTTL \in Nat /\ Skew \in Nat /\ Kept \in Nat
  /\ Overlap \in Nat /\ Rotation \in Nat /\ MaxKeys > 0
BY AuthAssumption

-----------------------------------------------------------------------------
(* Single use. *)

Claimable == {"none", "issued"}

UseInv ==
  /\ now \in Nat
  /\ challenge \in [Challenges -> ChallengeRows]
  /\ ticket \in [Tickets -> TicketRows]
  /\ accepted \in [Challenges \cup Tickets -> {0, 1}]
  /\ \A h \in Challenges : challenge[h].state \in Claimable => accepted[h] = 0
  /\ \A k \in Tickets : ticket[k].state \in Claimable => accepted[k] = 0

(* Maintenance deletes a row and never makes one claimable again. *)
LEMMA SweptChallenge ==
  ASSUME NEW row \in ChallengeRows
  PROVE  Swept(row) \in ChallengeRows /\ (Swept(row).state \in Claimable => row.state \in Claimable)
BY DEF Swept, ChallengeRows, RowStates, Claimable

LEMMA SweptTicket ==
  ASSUME NEW row \in TicketRows
  PROVE  Swept(row) \in TicketRows /\ (Swept(row).state \in Claimable => row.state \in Claimable)
BY DEF Swept, TicketRows, RowStates, Claimable

(* The steps that touch neither the rows nor how often one was accepted. *)
LEMMA UseUnchanged ==
  ASSUME UseInv, UNCHANGED <<challenge, ticket, accepted>>, now' \in Nat
  PROVE  UseInv'
BY DEF UseInv

(* A challenge is issued once, and its one attempt consumes it. *)
LEMMA UseOfChallenges ==
  ASSUME UseInv, NEW h \in Challenges,
         \/ \E op \in {"register", "token"} : CreateChallenge(h, op)
         \/ \E r \in Requests, good \in BOOLEAN : VerifyChallenge(r, h, good)
  PROVE  UseInv'
<1>1. ASSUME NEW op \in {"register", "token"}, CreateChallenge(h, op) PROVE UseInv'
  <2>1. [state |-> "issued", op |-> op, expires |-> now + ChallengeTTL] \in ChallengeRows
    BY NatAssumption DEF UseInv, ChallengeRows, RowStates
  <2> DEFINE row == [state |-> "issued", op |-> op, expires |-> now + ChallengeTTL]
  <2>2. /\ challenge' = [challenge EXCEPT ![h] = row]
        /\ UNCHANGED <<now, ticket, accepted>> /\ challenge[h].state = "none"
    BY <1>1 DEF CreateChallenge, requestVars
  <2> HIDE DEF row
  <2> QED
    BY <2>1, <2>2 DEF UseInv, Claimable, row
<1>2. ASSUME NEW r \in Requests, NEW good \in BOOLEAN, VerifyChallenge(r, h, good)
      PROVE  UseInv'
  <2>1. /\ challenge' = [challenge EXCEPT ![h] = [challenge[h] EXCEPT !.state = "consumed"]]
        /\ accepted' = [accepted EXCEPT ![h] = accepted[h] + 1]
        /\ UNCHANGED <<now, ticket>> /\ challenge[h].state = "issued"
    BY <1>2 DEF VerifyChallenge, ClaimChallenge, Accepts, UseInv
  <2>2. [challenge[h] EXCEPT !.state = "consumed"] \in ChallengeRows
    <3>1. challenge[h] \in ChallengeRows /\ challenge[h].state # "none"
      BY <2>1 DEF UseInv
    <3> QED
      BY <3>1 DEF ChallengeRows, RowStates
  <2>3. [challenge[h] EXCEPT !.state = "consumed"].state = "consumed"
    BY DEF UseInv, ChallengeRows
  <2>4. accepted[h] = 0
    BY <2>1 DEF UseInv, Claimable
  <2>5. accepted' = [accepted EXCEPT ![h] = 1]
    BY <2>1, <2>4
  <2>6. h \notin Tickets
    BY AuthAssumption
  <2> DEFINE row == [challenge[h] EXCEPT !.state = "consumed"]
  <2> HIDE DEF row
  <2>7. challenge' = [challenge EXCEPT ![h] = row] /\ row \in ChallengeRows
        /\ row.state = "consumed"
    BY <2>1, <2>2, <2>3 DEF row
  <2> QED
    BY <2>1, <2>5, <2>6, <2>7 DEF UseInv, Claimable
<1> QED
  BY <1>1, <1>2

(* The same for a ticket. *)
LEMMA UseOfTickets ==
  ASSUME UseInv, NEW r \in Requests, NEW k \in Tickets,
         NEW path \in Paths, InsertTicket(r, k, path) \/ UpgradeWithTicket(r, k, path)
  PROVE  UseInv'
<1>1. ASSUME InsertTicket(r, k, path) PROVE UseInv'
  <2> DEFINE row == [state |-> "issued", op |-> path, expires |-> now + TicketTTL,
                     after |-> device = "revoked"]
  <2>1. row \in TicketRows
    BY NatAssumption DEF UseInv, TicketRows, RowStates, Paths
  <2>2. /\ ticket' = [ticket EXCEPT ![k] = row]
        /\ UNCHANGED <<now, challenge, accepted>> /\ ticket[k].state = "none"
    BY <1>1 DEF InsertTicket
  <2> HIDE DEF row
  <2> QED
    BY <2>1, <2>2 DEF UseInv, Claimable, row
<1>2. ASSUME UpgradeWithTicket(r, k, path) PROVE UseInv'
  <2> DEFINE row == [ticket[k] EXCEPT !.state = "consumed"]
  <2>1. /\ ticket' = [ticket EXCEPT ![k] = row]
        /\ accepted' = [accepted EXCEPT ![k] = accepted[k] + 1]
        /\ UNCHANGED <<now, challenge>> /\ ticket[k].state = "issued"
    BY <1>2 DEF UpgradeWithTicket, Accepts, UseInv
  <2>2. row \in TicketRows /\ row.state = "consumed"
    BY DEF UseInv, TicketRows, RowStates
  <2> HIDE DEF row
  <2>3. accepted[k] = 0
    BY <2>1 DEF UseInv, Claimable
  <2>4. accepted' = [accepted EXCEPT ![k] = 1]
    BY <2>1, <2>3
  <2>5. k \notin Challenges
    BY AuthAssumption
  <2> QED
    BY <2>1, <2>2, <2>4, <2>5 DEF UseInv, Claimable
<1> QED
  BY <1>1, <1>2

(* A revocation and the maintenance only delete rows. *)
LEMMA UseOfDeletions ==
  ASSUME UseInv, Revoke \/ Maintain
  PROVE  UseInv'
<1>1. ASSUME Revoke PROVE UseInv'
  <2> DEFINE gone(k) == IF ticket[k].state = "issued"
                        THEN [ticket[k] EXCEPT !.state = "deleted"] ELSE ticket[k]
  <2>1. /\ ticket' = [k \in Tickets |-> gone(k)]
        /\ UNCHANGED <<now, challenge, accepted>>
    BY <1>1 DEF Revoke, requestVars
  <2>2. ASSUME NEW k \in Tickets
        PROVE  gone(k) \in TicketRows
               /\ (gone(k).state \in Claimable => ticket[k].state \in Claimable)
    BY DEF UseInv, TicketRows, RowStates, Claimable
  <2> HIDE DEF gone
  <2> QED
    BY <2>1, <2>2 DEF UseInv
<1>2. ASSUME Maintain PROVE UseInv'
  <2>1. /\ ticket' = [k \in Tickets |-> Swept(ticket[k])]
        /\ challenge' = [h \in Challenges |-> Swept(challenge[h])]
        /\ UNCHANGED <<now, accepted>>
    BY <1>2 DEF Maintain, requestVars
  <2>2. \A h \in Challenges :
          /\ Swept(challenge[h]) \in ChallengeRows
          /\ Swept(challenge[h]).state \in Claimable => challenge[h].state \in Claimable
    BY SweptChallenge DEF UseInv
  <2>3. \A k \in Tickets :
          /\ Swept(ticket[k]) \in TicketRows
          /\ Swept(ticket[k]).state \in Claimable => ticket[k].state \in Claimable
    BY SweptTicket DEF UseInv
  <2> QED
    BY <2>1, <2>2, <2>3 DEF UseInv
<1> QED
  BY <1>1, <1>2

LEMMA UseKeeps == UseInv /\ [Next]_vars => UseInv'
<1> SUFFICES ASSUME UseInv, [Next]_vars PROVE UseInv'
  OBVIOUS
<1>1. Tick \/ UNCHANGED now => now' \in Nat
  BY DEF Tick, UseInv
<1>2. CASE \E r \in Requests : \/ InsertDevice(r) \/ ReadDevice(r) \/ Mint(r)
                               \/ ReadRow(r) \/ AttachPublisher(r) \/ AttachMirror(r)
                               \/ Hangup(r)
                               \/ \E t \in tokens : \/ AuthRequest(r, t)
                                                   \/ \E path \in Paths : UpgradeWithToken(r, t, path)
  <2>1. UNCHANGED <<now, challenge, ticket, accepted>>
    BY <1>2
    DEF InsertDevice, ReadDevice, Mint, ReadRow, AttachPublisher, AttachMirror, Hangup,
        AuthRequest, UpgradeWithToken, rowVars
  <2> QED
    BY <1>1, <2>1, UseUnchanged
<1>3. CASE Rotate \/ FinishRotation \/ RefreshFails \/ Restart \/ Tick \/ UNCHANGED vars
  BY <1>1, <1>3, UseUnchanged
  DEF Rotate, FinishRotation, RefreshFails, Restart, Tick, vars, rowVars, requestVars
<1> QED
  BY <1>2, <1>3, UseOfChallenges, UseOfTickets, UseOfDeletions DEF Next

(* SingleUse, always: no interleaving of requests with each other, with a  *)
(* revocation or with the maintenance that deletes rows lets claim_        *)
(* challenge or consume_ticket succeed twice for one row.                  *)
THEOREM AcceptedOnce == AuthSpec => []SingleUse
<1>1. AuthInit => UseInv
  BY DEF AuthInit, UseInv, Unissued, NoTicket, ChallengeRows, TicketRows, RowStates
<1>2. UseInv => SingleUse
  BY DEF UseInv, SingleUse
<1> QED
  BY <1>1, <1>2, UseKeeps, PTL DEF AuthSpec
-----------------------------------------------------------------------------
(* Revocation. *)

Phases == {"idle", "register", "token", "minting", "authorised", "upgrading", "attaching",
           "attached", "mirrorUpgrade", "mirroring"}
LetIn == {"authorised", "attaching", "attached"}
Mirrors == {"mirrorUpgrade", "mirroring"}

(* A request that authenticated after the revocation is looked at again    *)
(* before it is let in as a publisher, and what it finds is a row that     *)
(* stays revoked.                                                          *)
RequestInv ==
  /\ phase \in [Requests -> Phases]
  /\ device \in {"none", "active", "revoked"}
  /\ late \subseteq Requests
  /\ \A r \in late : /\ device = "revoked" /\ phase[r] \notin LetIn
                     /\ phase[r] \in Mirrors => r \in stray

(* revoke_device deletes the tickets there are. *)
TicketInv ==
  \A k \in Tickets : device = "revoked" /\ ticket[k].state = "issued" => ticket[k].after

(* A request moves on, and the device's row stays or is inserted. *)
LEMMA RequestMoves ==
  ASSUME RequestInv, NEW r \in Requests, NEW to \in Phases, Goes(r, to),
         UNCHANGED <<late, stray>>,
         device' \in {"none", "active", "revoked"}, device = "revoked" => device' = device,
         r \in late => to \notin LetIn /\ (to \in Mirrors => r \in stray)
  PROVE  RequestInv'
BY DEF RequestInv, Goes

(* A request authenticates. *)
LEMMA RequestAuthenticates ==
  ASSUME RequestInv, NEW r \in Requests, NEW to \in Phases, NEW after,
         Authenticated(r, to, after), UNCHANGED device,
         device = "revoked" => to \notin LetIn /\ (to \in Mirrors => after)
  PROVE  RequestInv'
<1>1. /\ phase' = [phase EXCEPT ![r] = to]
      /\ late' = IF device = "revoked" THEN late \cup {r} ELSE late \ {r}
  BY DEF Authenticated, Goes
<1>2. stray \ {r} \subseteq stray' /\ (after => r \in stray')
  BY DEF Authenticated
<1> QED
  BY <1>1, <1>2 DEF RequestInv

LEMMA RequestUnchanged ==
  ASSUME RequestInv, UNCHANGED <<phase, device, late, stray>>
  PROVE  RequestInv'
BY DEF RequestInv

(* What the handlers of one request do to it. *)
LEMMA RequestKeeps ==
  ASSUME UseInv, RequestInv, TicketInv, NEW r \in Requests,
         \/ InsertDevice(r) \/ ReadDevice(r) \/ Mint(r)
         \/ ReadRow(r) \/ AttachPublisher(r) \/ AttachMirror(r) \/ Hangup(r)
         \/ \E t \in tokens : AuthRequest(r, t) \/ \E path \in Paths : UpgradeWithToken(r, t, path)
         \/ \E k \in Tickets, path \in Paths :
              InsertTicket(r, k, path) \/ UpgradeWithTicket(r, k, path)
         \/ \E h \in Challenges, good \in BOOLEAN : VerifyChallenge(r, h, good)
  PROVE  RequestInv'
<1>1. CASE InsertDevice(r)
  BY <1>1, RequestMoves DEF InsertDevice, RequestInv, Phases, LetIn, Mirrors
<1>2. CASE ReadDevice(r)
  BY <1>2, RequestMoves DEF ReadDevice, RequestInv, Phases, LetIn, Mirrors, rowVars
<1>3. CASE Mint(r) \/ Hangup(r)
  BY <1>3, RequestMoves DEF Mint, Hangup, RequestInv, Phases, LetIn, Mirrors, rowVars
<1>4. CASE ReadRow(r)
  <2>1. CASE device = "active"
    BY <1>4, <2>1, RequestMoves DEF ReadRow, RequestInv, Phases, LetIn, Mirrors, rowVars
  <2>2. CASE device # "active"
    BY <1>4, <2>2, RequestMoves DEF ReadRow, RequestInv, Phases, LetIn, Mirrors, rowVars
  <2> QED
    BY <2>1, <2>2
<1>5. CASE AttachPublisher(r)
  BY <1>5, RequestMoves DEF AttachPublisher, RequestInv, Phases, LetIn, Mirrors, rowVars
<1>6. CASE AttachMirror(r)
  BY <1>6, RequestMoves DEF AttachMirror, RequestInv, Phases, LetIn, Mirrors, rowVars
<1>7. ASSUME NEW t \in tokens,
             AuthRequest(r, t) \/ \E path \in Paths : UpgradeWithToken(r, t, path)
      PROVE  RequestInv'
  <2>1. \E to \in Phases : Authenticated(r, to, FALSE) /\ UNCHANGED device /\ device # "revoked"
    BY <1>7 DEF AuthRequest, UpgradeWithToken, Upgrading, Revoked, Phases, rowVars
  <2> QED
    BY <2>1, RequestAuthenticates
<1>8. ASSUME NEW k \in Tickets, NEW path \in Paths, InsertTicket(r, k, path) PROVE RequestInv'
  BY <1>8, RequestMoves DEF InsertTicket, RequestInv, Phases, LetIn, Mirrors
<1>9. ASSUME NEW k \in Tickets, NEW path \in Paths, UpgradeWithTicket(r, k, path)
      PROVE  RequestInv'
  <2>1. /\ UNCHANGED device /\ ticket[k].state = "issued"
        /\ \/ Authenticated(r, Upgrading(path), ticket[k].after)
           \/ UNCHANGED <<phase, late, stray>>
    BY <1>9 DEF UpgradeWithTicket
  <2>2. Upgrading(path) \in Phases /\ Upgrading(path) \notin LetIn
    BY DEF Upgrading, Phases, LetIn
  <2>3. device = "revoked" => ticket[k].after
    BY <2>1 DEF TicketInv
  <2> QED
    BY <2>1, <2>2, <2>3, RequestAuthenticates, RequestUnchanged
<1>10. ASSUME NEW h \in Challenges, NEW good \in BOOLEAN, VerifyChallenge(r, h, good)
       PROVE  RequestInv'
  <2>1. UNCHANGED <<device, late, stray>> /\ (Goes(r, challenge[h].op) \/ UNCHANGED phase)
    BY <1>10 DEF VerifyChallenge
  <2>2. challenge[h].op \in {"register", "token"}
    BY <1>10 DEF UseInv, ChallengeRows, VerifyChallenge
  <2> QED
    BY <2>1, <2>2, RequestMoves, RequestUnchanged DEF Phases, LetIn, Mirrors, RequestInv
<1> QED
  BY <1>1, <1>2, <1>3, <1>4, <1>5, <1>6, <1>7, <1>8, <1>9, <1>10

(* A row that can be used after a step was there before it, or is younger  *)
(* than the revocation.                                                    *)
LEMMA TicketKeeps ==
  ASSUME UseInv, TicketInv, [Next]_vars
  PROVE  TicketInv'
<1>1. CASE UNCHANGED <<ticket, device>>
  BY <1>1 DEF TicketInv
<1>2. ASSUME NEW r \in Requests, InsertDevice(r) PROVE TicketInv'
  BY <1>2 DEF InsertDevice, TicketInv
<1>3. ASSUME NEW r \in Requests, NEW k \in Tickets, NEW path \in Paths, InsertTicket(r, k, path)
      PROVE  TicketInv'
  <2>1. PICK row : row = [state |-> "issued", op |-> path, expires |-> now + TicketTTL,
                          after |-> device = "revoked"]
    OBVIOUS
  <2>2. ticket' = [ticket EXCEPT ![k] = row] /\ UNCHANGED device
    BY <1>3, <2>1 DEF InsertTicket
  <2>3. device = "revoked" => row.after
    BY <2>1
  <2> QED
    BY <2>2, <2>3 DEF TicketInv, UseInv
<1>4. ASSUME NEW r \in Requests, NEW k \in Tickets, NEW path \in Paths,
             UpgradeWithTicket(r, k, path)
      PROVE  TicketInv'
  <2>1. PICK row : row = [ticket[k] EXCEPT !.state = "consumed"]
    OBVIOUS
  <2>2. ticket' = [ticket EXCEPT ![k] = row] /\ UNCHANGED device
    BY <1>4, <2>1 DEF UpgradeWithTicket
  <2>3. row.state = "consumed"
    BY <2>1 DEF UseInv, TicketRows
  <2> QED
    BY <2>2, <2>3 DEF TicketInv, UseInv
<1>5. CASE Revoke
  <2> SUFFICES ASSUME NEW k \in Tickets PROVE ticket'[k].state # "issued"
    BY DEF TicketInv
  <2>1. ticket'[k] = IF ticket[k].state = "issued"
                     THEN [ticket[k] EXCEPT !.state = "deleted"] ELSE ticket[k]
    BY <1>5 DEF Revoke
  <2> QED
    BY <2>1 DEF UseInv, TicketRows
<1>6. CASE Maintain
  <2> SUFFICES ASSUME NEW k \in Tickets, device = "revoked", ticket'[k].state = "issued"
               PROVE  ticket'[k].after
    BY <1>6 DEF TicketInv, Maintain
  <2>1. ticket'[k] = Swept(ticket[k])
    BY <1>6 DEF Maintain
  <2>2. ticket[k] \in TicketRows
    BY DEF UseInv
  <2>3. ticket'[k] = ticket[k]
    BY <2>1, <2>2 DEF Swept, TicketRows
  <2> QED
    BY <2>3 DEF TicketInv
<1>7. ASSUME NEW r \in Requests,
             \/ ReadDevice(r) \/ Mint(r) \/ ReadRow(r) \/ AttachPublisher(r) \/ AttachMirror(r)
             \/ Hangup(r)
             \/ \E t \in tokens : \/ AuthRequest(r, t)
                                 \/ \E path \in Paths : UpgradeWithToken(r, t, path)
      PROVE  UNCHANGED <<ticket, device>>
  BY <1>7 DEF ReadDevice, Mint, ReadRow, AttachPublisher, AttachMirror, Hangup, AuthRequest,
              UpgradeWithToken, rowVars
<1>8. ASSUME NEW h \in Challenges,
             \/ \E op \in {"register", "token"} : CreateChallenge(h, op)
             \/ \E r \in Requests, good \in BOOLEAN : VerifyChallenge(r, h, good)
      PROVE  UNCHANGED <<ticket, device>>
  BY <1>8 DEF CreateChallenge, VerifyChallenge
<1>9. ASSUME Rotate \/ FinishRotation \/ RefreshFails \/ Restart \/ Tick \/ UNCHANGED vars
      PROVE  UNCHANGED <<ticket, device>>
  BY <1>9 DEF Rotate, FinishRotation, RefreshFails, Restart, Tick, vars, rowVars
<1> QED
  BY <1>1, <1>2, <1>3, <1>4, <1>5, <1>6, <1>7, <1>8, <1>9 DEF Next

RevocationInv == RequestInv /\ TicketInv

LEMMA RevocationKeeps ==
  UseInv /\ RevocationInv /\ [Next]_vars => RevocationInv'
<1> SUFFICES ASSUME UseInv, RequestInv, TicketInv, [Next]_vars PROVE RequestInv'
  BY TicketKeeps DEF RevocationInv
<1>1. CASE Revoke
  BY <1>1 DEF Revoke, RequestInv, requestVars
<1>2. CASE Restart
  BY <1>2 DEF Restart, RequestInv, Phases, rowVars
<1>3. CASE Rotate \/ FinishRotation \/ RefreshFails \/ Maintain \/ Tick \/ UNCHANGED vars
  BY <1>3, RequestUnchanged
  DEF Rotate, FinishRotation, RefreshFails, Maintain, Tick, vars, rowVars, requestVars
<1>4. ASSUME NEW h \in Challenges, NEW op, CreateChallenge(h, op) PROVE RequestInv'
  BY <1>4, RequestUnchanged DEF CreateChallenge, requestVars
<1> QED
  BY <1>1, <1>2, <1>3, <1>4, RequestKeeps DEF Next

(* RevokedIsRefused, always: the row is read again between whatever proved *)
(* who the device is and the slot or the ticket it asks for, so that a     *)
(* token minted or a relay ticket inserted by a handler that had read the  *)
(* row before revoke_device wrote it is of no use; and of the mirror       *)
(* tickets only one inserted after the revocation is.                      *)
THEOREM RevocationHolds == AuthSpec => []RevokedIsRefused
<1>1. AuthInit => UseInv /\ RevocationInv
  <2> SUFFICES ASSUME AuthInit PROVE UseInv /\ RequestInv /\ TicketInv
    BY DEF RevocationInv
  <2>1. UseInv
    BY DEF AuthInit, UseInv, Unissued, NoTicket, ChallengeRows, TicketRows, RowStates
  <2>2. RequestInv /\ TicketInv
    BY DEF AuthInit, RequestInv, TicketInv, Phases
  <2> QED
    BY <2>1, <2>2
<1>2. RevocationInv => RevokedIsRefused
  BY DEF RevocationInv, RequestInv, RevokedIsRefused, LetIn, Mirrors
<1> QED
  BY <1>1, <1>2, UseKeeps, RevocationKeeps, PTL DEF AuthSpec
-----------------------------------------------------------------------------
(* Signing keys. *)

TokenType == [kid : Keys, iat : Nat]

KeyTypeOK ==
  /\ now \in 0..MaxTime
  /\ tokens \subseteq TokenType
  /\ newest \in Keys /\ minting \in Keys
  /\ created \in [Keys -> Nat] /\ notAfter \in [Keys -> Nat]
  /\ stored \subseteq Keys /\ cache \subseteq Keys

(* A key ends an overlap after the next one was inserted, and the newest   *)
(* has no end.                                                             *)
EndInv ==
  \A k \in Keys : notAfter[k] = IF k >= newest THEN Forever ELSE created[k + 1] + Overlap

(* What was inserted is stored until it ends, and what the process has     *)
(* heard of verifies until then.  It signs with the newest key it has      *)
(* heard of, which a refresh that failed leaves behind the newest there is.*)
KeptInv ==
  /\ minting <= newest
  /\ \A k \in 1..newest : k \in stored \/ notAfter[k] < now
  /\ \A k \in 1..minting : k \in cache \/ notAfter[k] < now
  /\ \A t \in tokens : t.kid <= minting

KeyInv == KeyTypeOK /\ EndInv /\ KeptInv

(* The steps that mint nothing and touch no key. *)
LEMMA KeyUnchanged ==
  ASSUME KeyInv, UNCHANGED <<now, tokens, newest, created, notAfter, stored, cache, minting>>
  PROVE  KeyInv'
BY DEF KeyInv, KeyTypeOK, EndInv, KeptInv

(* A token is signed with a key the process knows. *)
LEMMA KeyOfMint ==
  ASSUME KeyInv, NEW r \in Requests, Mint(r)
  PROVE  KeyInv'
<1>1. PICK t : t = [kid |-> minting, iat |-> now]
  OBVIOUS
<1>2. /\ tokens' = tokens \cup {t}
      /\ UNCHANGED <<now, newest, created, notAfter, stored, cache, minting>>
  BY <1>1 DEF Mint, keyVars
<1>3. t \in TokenType /\ t.kid <= minting
  BY <1>1, NatAssumption DEF KeyInv, KeyTypeOK, TokenType, Keys
<1> QED
  BY <1>2, <1>3 DEF KeyInv, KeyTypeOK, EndInv, KeptInv

(* insert_signing_key gives the outgoing key its end. *)
LEMMA KeyOfRotate ==
  ASSUME KeyInv, Rotate
  PROVE  KeyInv'
<1>1. /\ notAfter' = [notAfter EXCEPT ![newest] = now + Overlap]
      /\ created' = [created EXCEPT ![newest + 1] = now]
      /\ newest' = newest + 1 /\ stored' = stored \cup {newest + 1}
      /\ newest < MaxKeys
      /\ UNCHANGED <<now, tokens, cache, minting>>
  BY DEF Rotate, InsertSigningKey
<1>2. /\ newest \in Nat /\ newest >= 1 /\ newest + 1 \in Keys /\ newest \in Keys
      /\ now \in Nat /\ now + Overlap \in Nat /\ minting \in Nat
  BY <1>1, NatAssumption DEF KeyInv, KeyTypeOK, Keys
<1>3. KeyTypeOK'
  BY <1>1, <1>2 DEF KeyInv, KeyTypeOK
<1>4. EndInv'
  <2> SUFFICES ASSUME NEW k \in Keys
               PROVE  notAfter'[k] = IF k >= newest' THEN Forever ELSE created'[k + 1] + Overlap
    BY DEF EndInv
  <2>1. k \in Nat /\ notAfter[k] = IF k >= newest THEN Forever ELSE created[k + 1] + Overlap
    BY DEF KeyInv, EndInv, Keys
  <2>2. notAfter'[k] = IF k = newest THEN now + Overlap ELSE notAfter[k]
    BY <1>1 DEF KeyInv, KeyTypeOK
  <2>3. k < newest' => k + 1 \in Keys
    BY <1>1, <1>2, <2>1, NatAssumption DEF Keys
  <2>4. k < newest' => created'[k + 1] = IF k = newest THEN now ELSE created[k + 1]
    BY <1>1, <1>2, <2>1, <2>3 DEF KeyInv, KeyTypeOK
  <2> QED
    BY <1>1, <1>2, <2>1, <2>2, <2>4
<1>5. KeptInv'
  <2>1. minting' <= newest' /\ \A t \in tokens' : t.kid <= minting'
    BY <1>1, <1>2 DEF KeyInv, KeptInv
  <2>2. newest \in stored /\ (minting = newest => newest \in cache)
    <3>1. ~(notAfter[newest] < now)
      BY <1>2, NatAssumption DEF KeyInv, KeyTypeOK, EndInv, Forever
    <3> QED
      BY <1>2, <3>1 DEF KeyInv, KeptInv
  <2>3. \A k \in 1..newest' : k \in stored' \/ notAfter'[k] < now'
    <3> SUFFICES ASSUME NEW k \in 1..newest + 1 PROVE k \in stored' \/ notAfter'[k] < now
      BY <1>1
    <3>1. CASE k = newest + 1 \/ k = newest
      BY <1>1, <2>2, <3>1
    <3>2. CASE k < newest
      BY <1>1, <1>2, <3>2 DEF KeyInv, KeyTypeOK, KeptInv, Keys
    <3> QED
      BY <1>2, <3>1, <3>2
  <2>4. \A k \in 1..minting' : k \in cache' \/ notAfter'[k] < now'
    <3> SUFFICES ASSUME NEW k \in 1..minting PROVE k \in cache \/ notAfter'[k] < now
      BY <1>1
    <3>1. k \in Nat /\ k <= newest /\ k \in Keys
      BY <1>1, <1>2, NatAssumption DEF KeyInv, KeptInv, Keys
    <3>2. CASE k = newest
      BY <1>2, <2>2, <3>1, <3>2 DEF KeyInv, KeptInv
    <3>3. CASE k # newest
      BY <1>1, <3>1, <3>3 DEF KeyInv, KeyTypeOK, KeptInv
    <3> QED
      BY <3>2, <3>3
  <2> QED
    BY <2>1, <2>3, <2>4 DEF KeptInv
<1> QED
  BY <1>3, <1>4, <1>5 DEF KeyInv

(* refresh, at the end of a rotation or at a start, keeps what has not     *)
(* ended.                                                                  *)
LEMMA KeyOfRefresh ==
  ASSUME KeyInv, Refresh, UNCHANGED <<now, tokens, newest, created, notAfter, stored>>
  PROVE  KeyInv'
<1>1. cache' = {k \in stored : notAfter[k] >= now} /\ minting' = newest
  BY DEF Refresh
<1>2. newest \in Nat /\ minting \in Nat /\ minting <= newest /\ now \in Nat
  BY NatAssumption DEF KeyInv, KeyTypeOK, KeptInv, Keys
<1>3. KeyTypeOK' /\ EndInv'
  BY <1>1 DEF KeyInv, KeyTypeOK, EndInv
<1>4. \A t \in tokens : t.kid <= newest
  BY <1>2 DEF KeyInv, KeyTypeOK, KeptInv, TokenType, Keys
<1>5. \A k \in 1..newest : k \in cache' \/ notAfter[k] < now
  <2> SUFFICES ASSUME NEW k \in 1..newest, ~(notAfter[k] < now) PROVE k \in cache'
    OBVIOUS
  <2>1. k \in stored /\ k \in Keys
    BY DEF KeyInv, KeyTypeOK, KeptInv, Keys
  <2>2. notAfter[k] \in Nat
    BY <2>1 DEF KeyInv, KeyTypeOK
  <2> QED
    BY <1>1, <1>2, <2>1, <2>2
<1>6. KeptInv'
  BY <1>1, <1>2, <1>4, <1>5 DEF KeyInv, KeptInv
<1> QED
  BY <1>3, <1>6 DEF KeyInv

(* prune_signing_keys deletes only what has ended. *)
LEMMA KeyOfMaintain ==
  ASSUME KeyInv, Maintain
  PROVE  KeyInv'
<1>1. /\ stored' = {k \in stored : notAfter[k] >= now}
      /\ UNCHANGED <<now, tokens, newest, created, notAfter, cache, minting>>
  BY DEF Maintain
<1>2. KeyTypeOK' /\ EndInv'
  BY <1>1 DEF KeyInv, KeyTypeOK, EndInv
<1>3. \A k \in 1..newest : k \in stored' \/ notAfter[k] < now
  <2> SUFFICES ASSUME NEW k \in 1..newest, ~(notAfter[k] < now) PROVE k \in stored'
    OBVIOUS
  <2>1. k \in stored /\ k \in Keys
    BY DEF KeyInv, KeyTypeOK, KeptInv, Keys
  <2>2. notAfter[k] \in Nat /\ now \in Nat
    BY <2>1, NatAssumption DEF KeyInv, KeyTypeOK
  <2> QED
    BY <1>1, <2>1, <2>2
<1>4. KeptInv'
  BY <1>1, <1>3 DEF KeyInv, KeptInv
<1> QED
  BY <1>2, <1>4 DEF KeyInv

(* What had ended before has ended after. *)
LEMMA KeyOfTick ==
  ASSUME KeyInv, Tick
  PROVE  KeyInv'
<1>1. /\ now < MaxTime /\ now' = now + 1
      /\ UNCHANGED <<tokens, newest, created, notAfter, stored, cache, minting>>
  BY DEF Tick, keyVars
<1>2. now \in Nat /\ newest \in Keys /\ minting \in Keys /\ MaxKeys \in Nat
  BY NatAssumption DEF KeyInv, KeyTypeOK
<1>3. KeyTypeOK' /\ EndInv'
  BY <1>1, <1>2, NatAssumption DEF KeyInv, KeyTypeOK, EndInv
<1>4. \A k \in Keys : notAfter[k] < now => notAfter[k] < now'
  BY <1>1, <1>2 DEF KeyInv, KeyTypeOK
<1>5. \A k \in 1..newest : k \in Keys
  BY <1>2 DEF Keys
<1>6. \A k \in 1..minting : k \in Keys
  BY <1>2 DEF Keys
<1>7. KeptInv'
  BY <1>1, <1>4, <1>5, <1>6 DEF KeyInv, KeptInv
<1> QED
  BY <1>3, <1>7 DEF KeyInv

LEMMA KeyKeeps == KeyInv /\ [Next]_vars => KeyInv'
<1> SUFFICES ASSUME KeyInv, [Next]_vars PROVE KeyInv'
  OBVIOUS
<1>1. CASE \E h \in Challenges :
             \/ \E op \in {"register", "token"} : CreateChallenge(h, op)
             \/ \E r \in Requests, good \in BOOLEAN : VerifyChallenge(r, h, good)
  BY <1>1, KeyUnchanged DEF CreateChallenge, VerifyChallenge, keyVars
<1>2. ASSUME NEW r \in Requests,
             \/ InsertDevice(r) \/ ReadDevice(r) \/ Mint(r)
             \/ ReadRow(r) \/ AttachPublisher(r) \/ AttachMirror(r) \/ Hangup(r)
      PROVE  KeyInv'
  BY <1>2, KeyUnchanged, KeyOfMint
  DEF InsertDevice, ReadDevice, ReadRow, AttachPublisher, AttachMirror, Hangup, keyVars
<1>3. ASSUME NEW r \in Requests,
             \/ \E t \in tokens : \/ AuthRequest(r, t)
                                 \/ \E path \in Paths : UpgradeWithToken(r, t, path)
             \/ \E k \in Tickets, path \in Paths :
                  InsertTicket(r, k, path) \/ UpgradeWithTicket(r, k, path)
      PROVE  KeyInv'
  BY <1>3, KeyUnchanged
  DEF AuthRequest, UpgradeWithToken, InsertTicket, UpgradeWithTicket, keyVars
<1>4. CASE Revoke \/ RefreshFails \/ UNCHANGED vars
  BY <1>4, KeyUnchanged DEF Revoke, RefreshFails, vars, keyVars
<1>5. CASE FinishRotation \/ Restart
  BY <1>5, KeyOfRefresh DEF FinishRotation, Restart
<1> QED
  BY <1>1, <1>2, <1>3, <1>4, <1>5, KeyOfRotate, KeyOfMaintain, KeyOfTick DEF Next

(* TokenLivesOut, always: whatever rotations, refreshes that fail,         *)
(* prunings and restarts happen, and however long they take, a token that  *)
(* expires within the overlap its key was given verifies until then.       *)
THEOREM TokensLiveOut == AuthSpec => []TokenLivesOut
<1>1. AuthInit => KeyInv
  <2> SUFFICES ASSUME AuthInit PROVE KeyInv
    OBVIOUS
  <2>1. 1 \in Keys /\ Forever \in Nat /\ 0 \in 0..MaxTime /\ \A k \in Keys : k >= 1
    BY NatAssumption DEF Keys, Forever
  <2>2. KeyTypeOK
    BY <2>1 DEF AuthInit, KeyTypeOK
  <2>3. EndInv /\ KeptInv
    BY <2>1 DEF AuthInit, EndInv, KeptInv
  <2> QED
    BY <2>2, <2>3 DEF KeyInv
<1>2. KeyInv => TokenLivesOut
  <2> SUFFICES ASSUME KeyInv, NEW t \in tokens, now <= t.iat + TokenTTL, Covered(t)
               PROVE  Verifies(t)
    BY DEF TokenLivesOut
  <2>1. /\ t.iat \in Nat /\ now \in Nat /\ now <= MaxTime /\ t.kid \in Keys /\ t.kid \in Nat
        /\ newest \in Keys /\ newest \in Nat /\ newest <= MaxKeys /\ minting \in Nat
    BY NatAssumption DEF KeyInv, KeyTypeOK, TokenType, Keys
  <2>2. t.kid <= minting /\ minting <= newest /\ t.kid \in 1..minting
    BY <2>1 DEF KeyInv, KeptInv, Keys
  <2>3. CASE t.kid = newest
    <3>1. ~(notAfter[t.kid] < now)
      BY <2>1, <2>3, NatAssumption DEF KeyInv, EndInv, Forever
    <3> QED
      BY <2>1, <2>2, <3>1, NatAssumption DEF KeyInv, KeptInv, Verifies
  <2>4. CASE t.kid # newest
    <3>1. t.kid < newest /\ t.kid + 1 \in Keys
      BY <2>1, <2>2, <2>4, NatAssumption DEF Keys
    <3>2. created[t.kid + 1] \in Nat
      BY <3>1 DEF KeyInv, KeyTypeOK
    <3>3. notAfter[t.kid] = created[t.kid + 1] + Overlap
      BY <2>1, <3>1 DEF KeyInv, EndInv
    <3>4. created[t.kid + 1] + Overlap >= t.iat + TokenTTL
      BY <2>4 DEF Covered
    <3>5. ~(notAfter[t.kid] < now)
      BY <2>1, <3>2, <3>3, <3>4, NatAssumption
    <3> QED
      BY <2>1, <2>2, <3>5, NatAssumption DEF KeyInv, KeptInv, Verifies
  <2> QED
    BY <2>3, <2>4
<1> QED
  BY <1>1, <1>2, KeyKeeps, PTL DEF AuthSpec
=============================================================================
