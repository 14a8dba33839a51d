------------------------- MODULE OpenRequestsProofs -------------------------
(***************************************************************************)
(* What the callers of POST /v1/devices/{id}/terminals can rely on, for    *)
(* any number of calls, keys, shells and publisher connections.            *)
(*                                                                         *)
(* Two invariants, over the types of the state:                            *)
(*   - GenuineInv: an entry, a channel, its value, an answer and a record  *)
(*     all belong to the key they are found under;                         *)
(*   - WaitInv: a handler that created an entry and still runs finds its   *)
(*     own entry under its key, so that the one it retires is never        *)
(*     another's, unless the publisher or the sweep withdrew the key.      *)
(***************************************************************************)
EXTENDS OpenRequests, TLAPS

Stages == {"new", "looked", "admitted", "begun", "waiting", "opened", "stored", "done"}
Started == {s \in Shells : shell[s] # "none"}
Upstream == ({"decline"} \X Keys) \cup ({"open"} \X Started)

OpenTypeOK ==
  /\ keyOf \in [Calls -> Keys]
  /\ call \in [Calls -> Stages]
  /\ on \in [Calls -> Calls \cup {Nobody}]
  /\ reply \in [Calls -> Shells \cup {None, "refused"}]
  /\ pending \in [Keys -> Calls \cup {Nobody}]
  /\ watch \in [Calls -> Shells \cup Refusals \cup {None}]
  /\ withdrawn \subseteq Keys
  /\ record \in [Keys -> Shells \cup {None}]
  /\ down \in Seq(Keys) /\ inbox \in Seq(Keys) /\ up \in Seq(Upstream)
  /\ shell \in [Shells -> {"none", "starting", "running", "refused", "dead"}]
  /\ shellKey \in [Shells -> Keys \cup {None}]
  /\ \A s \in Shells : shell[s] # "none" => shellKey[s] \in Keys
  /\ opened \subseteq Started

GenuineInv ==
  /\ \A k \in Keys : pending[k] # Nobody => keyOf[pending[k]] = k
  /\ \A c \in Calls : on[c] # Nobody => keyOf[on[c]] = keyOf[c]
  /\ \A c \in Calls : watch[c] \in Shells => watch[c] \in TerminalsFor(keyOf[c])
  /\ \A c \in Calls : call[c] \in {"opened", "stored"} => reply[c] \in Shells
  /\ AnswerIsGenuine

WaitInv ==
  /\ \A c \in Calls : call[c] = "begun" => on[c] = c
  /\ \A c \in Calls : call[c] \in {"waiting", "opened", "stored"} => on[c] # Nobody
  /\ \A c \in Calls : on[c] = c /\ keyOf[c] \notin withdrawn => pending[keyOf[c]] = c
  /\ \A c \in Calls : call[c] \in {"opened", "stored"} => watch[on[c]] # None
  /\ NoDanglingWaiter

OpenInv == OpenTypeOK /\ GenuineInv /\ WaitInv

(* The outcomes are told apart. *)
LEMMA Outcomes ==
  /\ None \notin Refusals /\ None \notin Shells /\ "refused" \notin Shells
  /\ \A r \in Refusals : r \notin Shells
  /\ "unavailable" \in Refusals /\ "failed" \in Refusals /\ "declined" \in Refusals
BY OutcomesAssumption DEF Refusals

-----------------------------------------------------------------------------
(* The queues. *)

(* Appending to, or taking from, a queue of elements of S. *)
LEMMA QueueType ==
  ASSUME NEW S, NEW q \in Seq(S)
  PROVE  /\ \A x \in S : Append(q, x) \in Seq(S)
         /\ q # <<>> => Tail(q) \in Seq(S) /\ Head(q) \in S /\ q[1] = Head(q)
OBVIOUS

(* A queue stays well typed when more elements become legal. *)
LEMMA QueueGrows ==
  ASSUME NEW S, NEW T, S \subseteq T, NEW q \in Seq(S)
  PROVE  q \in Seq(T)
OBVIOUS

-----------------------------------------------------------------------------
(* Steps of one call. *)

(* What a handler's step leaves alone, whatever it does to its call. *)
Elsewhere == UNCHANGED <<record, inbox, up, shell, shellKey, opened>>

(* A call moves on and keeps its channel and its answer. *)
LEMMA CallMoves ==
  ASSUME OpenInv, NEW c \in Calls, NEW to \in Stages, Goes(c, to), Elsewhere,
         UNCHANGED <<on, reply, tableVars, down>>,
         to = "begun" => on[c] = c,
         to \in {"opened", "stored"} => reply[c] \in Shells /\ watch[on[c]] # None,
         to \in {"waiting", "opened", "stored"} => on[c] # Nobody,
         to = "waiting" /\ keyOf[c] \notin withdrawn =>
           pending[keyOf[c]] = on[c] \/ watch[on[c]] # None
  PROVE  OpenInv'
<1>1. OpenTypeOK'
  BY DEF OpenInv, OpenTypeOK, Goes, Elsewhere, tableVars, Upstream, Started
<1>2. GenuineInv'
  BY DEF OpenInv, OpenTypeOK, GenuineInv, AnswerIsGenuine, TerminalsFor, Goes, Elsewhere,
         tableVars
<1>3. WaitInv'
  BY DEF OpenInv, OpenTypeOK, WaitInv, NoDanglingWaiter, Goes, Elsewhere, tableVars
<1> QED
  BY <1>1, <1>2, <1>3 DEF OpenInv

(* A call is answered, and its entry stays. *)
LEMMA CallAnswered ==
  ASSUME OpenInv, NEW c \in Calls, NEW what, Answers(c, what), Elsewhere,
         what = "refused" \/ what \in TerminalsFor(keyOf[c]),
         UNCHANGED <<tableVars, down>>
  PROVE  OpenInv'
<1>1. OpenTypeOK'
  BY DEF OpenInv, OpenTypeOK, Goes, Answers, Elsewhere, tableVars, Upstream, Started, Stages,
         TerminalsFor
<1>2. GenuineInv'
  BY Outcomes
  DEF OpenInv, OpenTypeOK, GenuineInv, AnswerIsGenuine, TerminalsFor, Goes, Answers,
      Elsewhere, tableVars
<1>3. WaitInv'
  BY CallsAssumption
  DEF OpenInv, OpenTypeOK, WaitInv, NoDanglingWaiter, Goes, Answers, Elsewhere, tableVars
<1> QED
  BY <1>1, <1>2, <1>3 DEF OpenInv

(* A call is answered and retires the entry under its key, which is its    *)
(* own.                                                                    *)
LEMMA CallRetires ==
  ASSUME OpenInv, NEW c \in Calls, NEW what, Answers(c, what), RetireEntry(c), Elsewhere,
         what = "refused" \/ what \in TerminalsFor(keyOf[c]),
         watch[on[c]] # None,
         UNCHANGED <<watch, withdrawn, down>>
  PROVE  OpenInv'
<1>1. CASE on[c] # c
  BY <1>1, CallAnswered DEF RetireEntry, tableVars
<1>2. CASE on[c] = c
  <2>1. pending' = [pending EXCEPT ![keyOf[c]] = Nobody]
    BY <1>2 DEF RetireEntry, Finish
  <2>2. OpenTypeOK'
    BY <2>1
    DEF OpenInv, OpenTypeOK, Goes, Answers, Elsewhere, Upstream, Started, Stages, TerminalsFor
  <2>3. GenuineInv'
    BY <2>1, Outcomes
    DEF OpenInv, OpenTypeOK, GenuineInv, AnswerIsGenuine, TerminalsFor, Goes, Answers,
        Elsewhere
  <2>4. WaitInv'
    BY <1>2, <2>1, CallsAssumption
    DEF OpenInv, OpenTypeOK, WaitInv, NoDanglingWaiter, Goes, Answers, Elsewhere
  <2> QED
    BY <2>2, <2>3, <2>4 DEF OpenInv
<1> QED
  BY <1>1, <1>2

(* begin_open_request creates an entry where there is none. *)
LEMMA CallBegins ==
  ASSUME OpenInv, NEW c \in Calls, Begin(c)
  PROVE  OpenInv'
<1>1. /\ pending[keyOf[c]] = Nobody /\ pending' = [pending EXCEPT ![keyOf[c]] = c]
      /\ on' = [on EXCEPT ![c] = c] /\ call' = [call EXCEPT ![c] = "begun"]
      /\ UNCHANGED <<keyOf, reply, watch, withdrawn, record, down, up, inbox, shell,
                     shellKey, opened>>
  BY DEF Begin, Goes, wireVars, daemonVars
<1>2. OpenTypeOK'
  BY <1>1 DEF OpenInv, OpenTypeOK, Upstream, Started, Stages
<1>3. GenuineInv'
  BY <1>1, CallsAssumption
  DEF OpenInv, OpenTypeOK, GenuineInv, AnswerIsGenuine, TerminalsFor
<1>4. WaitInv'
  BY <1>1, CallsAssumption DEF OpenInv, OpenTypeOK, WaitInv, NoDanglingWaiter
<1> QED
  BY <1>2, <1>3, <1>4 DEF OpenInv

(* begin_open_request joins the entry of another call. *)
LEMMA CallJoins ==
  ASSUME OpenInv, NEW c \in Calls, Join(c)
  PROVE  OpenInv'
<1>1. /\ pending[keyOf[c]] # Nobody
      /\ on' = [on EXCEPT ![c] = pending[keyOf[c]]]
      /\ call' = [call EXCEPT ![c] = "waiting"]
      /\ UNCHANGED <<keyOf, reply, pending, watch, withdrawn, record, down, up, inbox, shell,
                     shellKey, opened>>
  BY DEF Join, Goes, wireVars, daemonVars, tableVars
<1>2. OpenTypeOK'
  BY <1>1 DEF OpenInv, OpenTypeOK, Upstream, Started, Stages
<1>3. GenuineInv'
  BY <1>1, CallsAssumption
  DEF OpenInv, OpenTypeOK, GenuineInv, AnswerIsGenuine, TerminalsFor
<1>4. WaitInv'
  BY <1>1, CallsAssumption DEF OpenInv, OpenTypeOK, WaitInv, NoDanglingWaiter
<1> QED
  BY <1>2, <1>3, <1>4 DEF OpenInv

-----------------------------------------------------------------------------
(* Outcomes. *)

(* The channels after resolve_open_request: nothing is lost, and what is   *)
(* new belongs to the key.                                                 *)
LEMMA ResolveEffect ==
  ASSUME OpenInv, NEW k \in Keys, NEW outcome \in Shells \cup Refusals, Resolve(k, outcome)
  PROVE  /\ watch' \in [Calls -> Shells \cup Refusals \cup {None}]
         /\ \A c \in Calls : watch'[c] = watch[c] \/ (watch'[c] = outcome /\ keyOf[c] = k)
BY DEF Resolve, OpenInv, OpenTypeOK, GenuineInv

(* resolve_open_request, whoever calls it. *)
LEMMA Resolved ==
  ASSUME OpenInv, NEW k \in Keys, NEW outcome \in Shells \cup Refusals, Resolve(k, outcome),
         UNCHANGED <<callVars, pending, withdrawn, record, inbox, down, shellKey>>,
         shell' \in [Shells -> {"none", "starting", "running", "refused", "dead"}],
         Started' = Started, up' \in Seq(Upstream),
         opened \subseteq opened', opened' \subseteq Started,
         outcome \in Shells => outcome \in opened' /\ shellKey[outcome] = k
  PROVE  OpenInv'
<1>1. /\ watch' \in [Calls -> Shells \cup Refusals \cup {None}]
      /\ \A c \in Calls : watch'[c] = watch[c] \/ (watch'[c] = outcome /\ keyOf[c] = k)
  BY ResolveEffect
<1>2. \A s \in Shells : shell'[s] # "none" <=> shell[s] # "none"
  BY DEF Started
<1>3. Upstream' = Upstream
  BY DEF Upstream
<1>4. OpenTypeOK'
  BY <1>1, <1>2, <1>3 DEF OpenInv, OpenTypeOK, callVars
<1>5. GenuineInv'
  <2>1. \A c \in Calls : watch'[c] \in Shells => watch'[c] \in TerminalsFor(keyOf[c])'
    BY <1>1, Outcomes DEF OpenInv, GenuineInv, TerminalsFor, callVars
  <2>2. AnswerIsGenuine'
    BY DEF OpenInv, GenuineInv, AnswerIsGenuine, TerminalsFor, callVars
  <2> QED
    BY <2>1, <2>2 DEF OpenInv, GenuineInv, callVars
<1>6. WaitInv'
  BY <1>1, Outcomes DEF OpenInv, OpenTypeOK, WaitInv, NoDanglingWaiter, callVars
<1> QED
  BY <1>4, <1>5, <1>6 DEF OpenInv

(* fail_open_requests_for_device answers and withdraws every entry. *)
LEMMA AllFailed ==
  ASSUME OpenInv, FailAll, UNCHANGED <<callVars, record, inbox, shell, shellKey, opened>>,
         down' \in Seq(Keys), up' \in Seq(Upstream)
  PROVE  OpenInv'
<1>1. /\ watch' \in [Calls -> Shells \cup Refusals \cup {None}]
      /\ \A c \in Calls : watch'[c] = watch[c] \/ watch'[c] = "unavailable"
      /\ pending' = [k \in Keys |-> Nobody] /\ withdrawn \subseteq withdrawn'
      /\ withdrawn' \subseteq Keys
      /\ \A k \in Keys : pending[k] # Nobody => k \in withdrawn'
  BY Outcomes DEF FailAll, OpenInv, OpenTypeOK
<1>2. OpenTypeOK'
  <2>1. Started' = Started /\ Upstream' = Upstream
    BY DEF Started, Upstream
  <2> QED
    BY <1>1, <2>1 DEF OpenInv, OpenTypeOK, callVars
<1>3. GenuineInv'
  <2>1. \A c \in Calls : watch'[c] \in Shells => watch'[c] \in TerminalsFor(keyOf[c])'
    BY <1>1, Outcomes DEF OpenInv, GenuineInv, TerminalsFor, callVars
  <2>2. AnswerIsGenuine'
    BY DEF OpenInv, GenuineInv, AnswerIsGenuine, TerminalsFor, callVars
  <2> QED
    BY <1>1, <2>1, <2>2 DEF OpenInv, GenuineInv, callVars
<1>4. WaitInv'
  BY <1>1, Outcomes, CallsAssumption
  DEF OpenInv, OpenTypeOK, WaitInv, NoDanglingWaiter, callVars
<1> QED
  BY <1>2, <1>3, <1>4 DEF OpenInv

(* sweep_pending_opens withdraws the key. *)
LEMMA Swept ==
  ASSUME OpenInv, NEW k \in Keys, Sweep(k)
  PROVE  OpenInv'
<1>1. /\ pending' = [pending EXCEPT ![k] = Nobody] /\ withdrawn' = withdrawn \cup {k}
      /\ UNCHANGED <<keyOf, call, on, reply, watch, record, down, up, inbox, shell, shellKey,
                     opened>>
  BY DEF Sweep, Finish, callVars, wireVars, daemonVars
<1>2. OpenTypeOK'
  BY <1>1 DEF OpenInv, OpenTypeOK, Upstream, Started
<1>3. GenuineInv'
  BY <1>1 DEF OpenInv, OpenTypeOK, GenuineInv, AnswerIsGenuine, TerminalsFor
<1>4. WaitInv'
  BY <1>1 DEF OpenInv, OpenTypeOK, WaitInv, NoDanglingWaiter
<1> QED
  BY <1>2, <1>3, <1>4 DEF OpenInv

(* idempotency::store puts the answer of a call under its key. *)
LEMMA CallStores ==
  ASSUME OpenInv, NEW c \in Calls, Store(c)
  PROVE  OpenInv'
<1>1. /\ call[c] = "opened" /\ call' = [call EXCEPT ![c] = "stored"]
      /\ record' \in [Keys -> Shells \cup {None}]
      /\ \A k \in Keys : record'[k] = record[k] \/ (k = keyOf[c] /\ record'[k] = reply[c])
      /\ reply[c] \in TerminalsFor(keyOf[c])
      /\ UNCHANGED <<keyOf, on, reply, pending, watch, withdrawn, down, up, inbox, shell,
                     shellKey, opened>>
  BY DEF Store, PutIdempotent, Goes, wireVars, daemonVars, tableVars, OpenInv, OpenTypeOK,
         GenuineInv, AnswerIsGenuine
<1>2. OpenTypeOK'
  BY <1>1 DEF OpenInv, OpenTypeOK, Upstream, Started, Stages
<1>3. GenuineInv'
  BY <1>1 DEF OpenInv, OpenTypeOK, GenuineInv, AnswerIsGenuine, TerminalsFor
<1>4. WaitInv'
  BY <1>1 DEF OpenInv, OpenTypeOK, WaitInv, NoDanglingWaiter
<1> QED
  BY <1>2, <1>3, <1>4 DEF OpenInv

-----------------------------------------------------------------------------
(* The publisher's side. *)

(* A step that touches neither the calls nor the table nor what is open. *)
LEMMA PublisherMoves ==
  ASSUME OpenInv, UNCHANGED <<callVars, tableVars, record, opened, shellKey>>,
         down' \in Seq(Keys), inbox' \in Seq(Keys), up' \in Seq(Upstream),
         shell' \in [Shells -> {"none", "starting", "running", "refused", "dead"}],
         \A s \in Shells : shell'[s] # "none" <=> shell[s] # "none"
  PROVE  OpenInv'
<1>1. Started' = Started /\ Upstream' = Upstream
  BY DEF Started, Upstream
<1>2. OpenTypeOK'
  BY <1>1 DEF OpenInv, OpenTypeOK, callVars, tableVars
<1>3. GenuineInv'
  BY DEF OpenInv, GenuineInv, AnswerIsGenuine, TerminalsFor, callVars, tableVars
<1>4. WaitInv'
  BY DEF OpenInv, WaitInv, NoDanglingWaiter, callVars, tableVars
<1> QED
  BY <1>2, <1>3, <1>4 DEF OpenInv

(* A shell is started for a request. *)
LEMMA ShellSpawned ==
  ASSUME OpenInv, HostSpawns
  PROVE  OpenInv'
<1>1. PICK s \in Shells :
        /\ shell[s] = "none" /\ shell' = [shell EXCEPT ![s] = "starting"]
        /\ shellKey' = [shellKey EXCEPT ![s] = Head(inbox)]
  BY DEF HostSpawns
<1>2. /\ inbox # <<>> /\ inbox' = Tail(inbox)
      /\ UNCHANGED <<callVars, tableVars, record, wireVars, opened>>
  BY DEF HostSpawns
<1>3. Head(inbox) \in Keys /\ inbox' \in Seq(Keys)
  BY <1>2, QueueType DEF OpenInv, OpenTypeOK
<1>4. Started \subseteq Started' /\ s \notin opened
  BY <1>1 DEF Started, OpenInv, OpenTypeOK
<1>5. up' \in Seq(Upstream')
  <2>1. Upstream \subseteq Upstream'
    BY <1>4 DEF Upstream
  <2> QED
    BY <1>2, <2>1, QueueGrows DEF wireVars, OpenInv, OpenTypeOK
<1>6. OpenTypeOK'
  BY <1>1, <1>2, <1>3, <1>4, <1>5
  DEF OpenInv, OpenTypeOK, callVars, tableVars, wireVars
<1>7. \A k \in Keys : TerminalsFor(k)' = TerminalsFor(k)
  BY <1>1, <1>2, <1>4 DEF TerminalsFor, OpenInv, OpenTypeOK, Started
<1>8. GenuineInv'
  BY <1>2, <1>7 DEF OpenInv, OpenTypeOK, GenuineInv, AnswerIsGenuine, callVars, tableVars
<1>9. WaitInv'
  BY <1>2 DEF OpenInv, WaitInv, NoDanglingWaiter, callVars, tableVars
<1> QED
  BY <1>6, <1>8, <1>9 DEF OpenInv

(* What the first message upstream can be. *)
LEMMA FirstUpstream ==
  ASSUME OpenInv, up # <<>>
  PROVE  /\ Tail(up) \in Seq(Upstream)
         /\ up[1][1] = "open" => up[1][2] \in Started /\ shellKey[up[1][2]] \in Keys
         /\ up[1][1] = "decline" => up[1][2] \in Keys
<1>1. Tail(up) \in Seq(Upstream) /\ up[1] \in Upstream
  BY QueueType DEF OpenInv, OpenTypeOK
<1> QED
  BY <1>1 DEF Upstream, Started, OpenInv, OpenTypeOK

(* The relay hears an answer. *)
LEMMA RelayHears ==
  ASSUME OpenInv, RelayOpens \/ RelayRefuses \/ RelayHearsDecline
  PROVE  OpenInv'
<1> DEFINE s == up[1][2]
<1>1. CASE RelayOpens
  <2>1. s \in Started /\ shellKey[s] \in Keys /\ Tail(up) \in Seq(Upstream)
    BY <1>1, FirstUpstream DEF RelayOpens
  <2>2. /\ up' = Tail(up) /\ opened' = opened \cup {s} /\ Resolve(shellKey[s], s)
        /\ UNCHANGED <<callVars, pending, withdrawn, record, inbox, down, shell, shellKey>>
    BY <1>1 DEF RelayOpens, daemonVars
  <2>3. s \in Shells /\ opened \subseteq Started /\ Started' = Started
    BY <2>1, <2>2 DEF Started, OpenInv, OpenTypeOK
  <2>4. shell' \in [Shells -> {"none", "starting", "running", "refused", "dead"}]
    BY <2>2 DEF OpenInv, OpenTypeOK
  <2> HIDE DEF s
  <2> QED
    BY <2>1, <2>2, <2>3, <2>4, Resolved
<1>2. CASE RelayRefuses
  <2>1. s \in Started /\ shellKey[s] \in Keys /\ Tail(up) \in Seq(Upstream)
    BY <1>2, FirstUpstream DEF RelayRefuses
  <2>2. /\ up' = Tail(up) /\ shell' = [shell EXCEPT ![s] = "refused"]
        /\ Resolve(shellKey[s], "failed")
        /\ UNCHANGED <<callVars, pending, withdrawn, record, inbox, down, shellKey, opened>>
    BY <1>2 DEF RelayRefuses
  <2> HIDE DEF s
  <2>3. opened \subseteq Started /\ Started' = Started
    BY <2>1, <2>2 DEF Started, OpenInv, OpenTypeOK
  <2>4. shell' \in [Shells -> {"none", "starting", "running", "refused", "dead"}]
    BY <2>2 DEF OpenInv, OpenTypeOK
  <2> QED
    BY <2>1, <2>2, <2>3, <2>4, Resolved, Outcomes
<1>3. CASE RelayHearsDecline
  <2>1. s \in Keys /\ Tail(up) \in Seq(Upstream)
    BY <1>3, FirstUpstream DEF RelayHearsDecline
  <2>2. /\ up' = Tail(up) /\ Resolve(s, "declined")
        /\ UNCHANGED <<callVars, pending, withdrawn, record, inbox, down, shell, shellKey,
                       opened>>
    BY <1>3 DEF RelayHearsDecline, daemonVars
  <2> HIDE DEF s
  <2>3. opened \subseteq Started /\ Started' = Started
    BY <2>2 DEF Started, OpenInv, OpenTypeOK
  <2>4. shell' \in [Shells -> {"none", "starting", "running", "refused", "dead"}]
    BY <2>2 DEF OpenInv, OpenTypeOK
  <2> QED
    BY <2>1, <2>2, <2>3, <2>4, Resolved, Outcomes
<1> QED
  BY <1>1, <1>2, <1>3

(* The steps of the publisher that change only queues and shells. *)
LEMMA PublisherKeeps ==
  ASSUME OpenInv,
         \/ ReceiveRequest \/ HostDeclines
         \/ \E s \in Shells : SendOpen(s) \/ \E to \in {"running", "dead"} : ShellStarts(s, to)
  PROVE  OpenInv'
<1> USE DEF wireVars, daemonVars
<1>1. /\ down \in Seq(Keys) /\ inbox \in Seq(Keys) /\ up \in Seq(Upstream)
      /\ shell \in [Shells -> {"none", "starting", "running", "refused", "dead"}]
  BY DEF OpenInv, OpenTypeOK
<1>2. ASSUME NEW k \in Keys, Declines(k) PROVE up' \in Seq(Upstream)
  <2>1. <<"decline", k>> \in Upstream
    BY DEF Upstream
  <2> QED
    BY <1>1, <1>2, <2>1, QueueType DEF Declines
<1>3. CASE ReceiveRequest
  <2>1. /\ down # <<>> /\ down' = Tail(down)
        /\ \/ inbox' = Append(inbox, Head(down)) /\ UNCHANGED up
           \/ Declines(Head(down)) /\ UNCHANGED inbox
        /\ UNCHANGED <<callVars, tableVars, record, shell, shellKey, opened>>
    BY <1>3 DEF ReceiveRequest
  <2>2. Head(down) \in Keys /\ Tail(down) \in Seq(Keys)
    BY <1>1, <2>1, QueueType
  <2>3. inbox' \in Seq(Keys) /\ up' \in Seq(Upstream)
    BY <1>1, <1>2, <2>1, <2>2, QueueType
  <2> QED
    BY <1>1, <2>1, <2>2, <2>3, PublisherMoves
<1>4. CASE HostDeclines
  <2>1. /\ inbox # <<>> /\ inbox' = Tail(inbox) /\ Declines(Head(inbox))
        /\ UNCHANGED <<callVars, tableVars, record, down, shell, shellKey, opened>>
    BY <1>4 DEF HostDeclines
  <2>2. Head(inbox) \in Keys /\ Tail(inbox) \in Seq(Keys)
    BY <1>1, <2>1, QueueType
  <2>3. up' \in Seq(Upstream)
    BY <1>2, <2>1, <2>2
  <2> QED
    BY <1>1, <2>1, <2>2, <2>3, PublisherMoves
<1>5. ASSUME NEW s \in Shells, SendOpen(s) PROVE OpenInv'
  <2>1. /\ shell[s] = "running" /\ up' = Append(up, <<"open", s>>)
        /\ UNCHANGED <<callVars, tableVars, record, down, inbox, shell, shellKey, opened>>
    BY <1>5 DEF SendOpen
  <2>2. <<"open", s>> \in Upstream
    BY <2>1 DEF Upstream, Started
  <2>3. up' \in Seq(Upstream)
    BY <1>1, <2>1, <2>2, QueueType
  <2> QED
    BY <1>1, <2>1, <2>3, PublisherMoves
<1>6. ASSUME NEW s \in Shells, NEW to \in {"running", "dead"}, ShellStarts(s, to)
      PROVE  OpenInv'
  <2>1. /\ shell[s] = "starting" /\ shell' = [shell EXCEPT ![s] = to]
        /\ UNCHANGED <<callVars, tableVars, record, down, up, inbox, shellKey, opened>>
    BY <1>6 DEF ShellStarts
  <2>2. /\ shell' \in [Shells -> {"none", "starting", "running", "refused", "dead"}]
        /\ \A x \in Shells : shell'[x] # "none" <=> shell[x] # "none"
    BY <1>1, <2>1
  <2> QED
    BY <1>1, <2>1, <2>2, PublisherMoves
<1> QED
  BY <1>3, <1>4, <1>5, <1>6

(* The connection comes and goes. *)
LEMMA ConnectionKeeps ==
  ASSUME OpenInv,
         \/ Connect \/ AssertCapability \/ Disconnect
         \/ \E g \in 1..MaxConns : DetachFails(g) \/ DetachSlot(g)
  PROVE  OpenInv'
<1> USE DEF wireVars, daemonVars
<1>1. /\ down \in Seq(Keys) /\ inbox \in Seq(Keys) /\ up \in Seq(Upstream)
      /\ shell \in [Shells -> {"none", "starting", "running", "refused", "dead"}]
      /\ <<>> \in Seq(Keys) /\ <<>> \in Seq(Upstream)
  BY DEF OpenInv, OpenTypeOK
<1>2. CASE Connect
  <2>1. /\ down' = <<>> /\ up' = <<>>
        /\ FailAll \/ UNCHANGED tableVars
        /\ UNCHANGED <<callVars, record, inbox, shell, shellKey, opened>>
    BY <1>2 DEF Connect
  <2>2. CASE UNCHANGED tableVars
    BY <1>1, <2>1, <2>2, PublisherMoves
  <2>3. CASE FailAll
    BY <1>1, <2>1, <2>3, AllFailed
  <2> QED
    BY <2>1, <2>2, <2>3
<1>3. CASE AssertCapability
  BY <1>1, <1>3, PublisherMoves DEF AssertCapability
<1>4. CASE Disconnect
  BY <1>1, <1>4, PublisherMoves DEF Disconnect
<1>5. ASSUME NEW g \in 1..MaxConns, DetachFails(g) PROVE OpenInv'
  BY <1>1, <1>5, AllFailed DEF DetachFails
<1>6. ASSUME NEW g \in 1..MaxConns, DetachSlot(g) PROVE OpenInv'
  <2>1. /\ down' \in Seq(Keys)
        /\ UNCHANGED <<callVars, tableVars, record, up, inbox, shell, shellKey, opened>>
    BY <1>1, <1>6 DEF DetachSlot
  <2> QED
    BY <1>1, <2>1, PublisherMoves
<1> QED
  BY <1>2, <1>3, <1>4, <1>5, <1>6

-----------------------------------------------------------------------------
(* The handler. *)

(* The request could not be delivered: the caller and whoever joined are   *)
(* told, and the entry is left.                                            *)
LEMMA DeliveryFails ==
  ASSUME OpenInv, NEW c \in Calls, Answers(c, "refused"), Resolve(keyOf[c], "unavailable"),
         Elsewhere, UNCHANGED <<pending, withdrawn, down>>
  PROVE  OpenInv'
<1>1. keyOf[c] \in Keys
  BY DEF OpenInv, OpenTypeOK
<1>2. /\ watch' \in [Calls -> Shells \cup Refusals \cup {None}]
      /\ \A d \in Calls : watch'[d] = watch[d] \/ watch'[d] = "unavailable"
  BY <1>1, ResolveEffect, Outcomes
<1>3. /\ call' = [call EXCEPT ![c] = "done"] /\ on' = [on EXCEPT ![c] = Nobody]
      /\ reply' = [reply EXCEPT ![c] = "refused"] /\ UNCHANGED keyOf
  BY DEF Answers, Goes
<1>4. OpenTypeOK'
  BY <1>2, <1>3 DEF OpenInv, OpenTypeOK, Elsewhere, Upstream, Started, Stages
<1>5. GenuineInv'
  <2>1. \A d \in Calls : watch'[d] \in Shells => watch'[d] \in TerminalsFor(keyOf[d])'
    BY <1>2, <1>3, Outcomes DEF OpenInv, GenuineInv, TerminalsFor, Elsewhere
  <2>2. AnswerIsGenuine'
    BY <1>3, Outcomes
    DEF OpenInv, OpenTypeOK, GenuineInv, AnswerIsGenuine, TerminalsFor, Elsewhere
  <2>3. \A d \in Calls : call'[d] \in {"opened", "stored"} => reply'[d] \in Shells
    BY <1>3 DEF OpenInv, OpenTypeOK, GenuineInv
  <2>4. \A d \in Calls : on'[d] # Nobody => keyOf'[on'[d]] = keyOf'[d]
    BY <1>3 DEF OpenInv, OpenTypeOK, GenuineInv
  <2> QED
    BY <1>3, <2>1, <2>2, <2>3, <2>4 DEF OpenInv, GenuineInv
<1>6. WaitInv'
  BY <1>2, <1>3, Outcomes, CallsAssumption
  DEF OpenInv, OpenTypeOK, WaitInv, NoDanglingWaiter, Elsewhere
<1> QED
  BY <1>4, <1>5, <1>6 DEF OpenInv

(* The wait ends with a terminal. *)
LEMMA CallTakes ==
  ASSUME OpenInv, NEW c \in Calls, TakeOpened(c)
  PROVE  OpenInv'
<1>1. /\ call[c] = "waiting" /\ watch[on[c]] \in Shells
      /\ call' = [call EXCEPT ![c] = "opened"]
      /\ reply' = [reply EXCEPT ![c] = watch[on[c]]]
      /\ UNCHANGED <<keyOf, on, pending, watch, withdrawn, record, down, up, inbox, shell,
                     shellKey, opened>>
  BY DEF TakeOpened, Goes, wireVars, daemonVars, tableVars
<1>2. on[c] \in Calls /\ keyOf[on[c]] = keyOf[c] /\ watch[on[c]] \in TerminalsFor(keyOf[c])
  BY <1>1 DEF OpenInv, OpenTypeOK, WaitInv, GenuineInv
<1>3. OpenTypeOK'
  BY <1>1 DEF OpenInv, OpenTypeOK, Upstream, Started, Stages
<1>4. GenuineInv'
  BY <1>1, <1>2 DEF OpenInv, OpenTypeOK, GenuineInv, AnswerIsGenuine, TerminalsFor
<1>5. WaitInv'
  BY <1>1, Outcomes DEF OpenInv, OpenTypeOK, WaitInv, NoDanglingWaiter
<1> QED
  BY <1>3, <1>4, <1>5 DEF OpenInv

LEMMA CallKeeps ==
  ASSUME OpenInv, NEW c \in Calls, CallStep(c) \/ Abandon(c)
  PROVE  OpenInv'
<1> USE DEF wireVars, daemonVars, Elsewhere
<1>1. CASE Lookup(c)
  <2>1. CASE Recorded(c) # None
    <3>1. Recorded(c) \in TerminalsFor(keyOf[c])
      BY <2>1 DEF Recorded, OpenInv, OpenTypeOK, GenuineInv, AnswerIsGenuine
    <3> QED
      BY <1>1, <2>1, <3>1, CallAnswered DEF Lookup
  <2>2. CASE Recorded(c) = None
    BY <1>1, <2>2, CallMoves DEF Lookup, Stages
  <2> QED
    BY <2>1, <2>2
<1>2. CASE Admit(c)
  BY <1>2, CallMoves, CallAnswered DEF Admit, Stages
<1>3. CASE OverLimit(c) \/ GiveUp(c) \/ Abandon(c)
  BY <1>3, CallAnswered DEF OverLimit, GiveUp, Abandon
<1>4. CASE Deliver(c)
  <2>1. CASE slot # 0 /\ Len(down) < Channel
    <3>1. /\ call' = [call EXCEPT ![c] = "waiting"] /\ down' = Append(down, keyOf[c])
          /\ UNCHANGED <<keyOf, on, reply, tableVars, record, up, inbox, shell, shellKey,
                         opened>>
      BY <1>4, <2>1 DEF Deliver, Goes, tableVars
    <3>2. down' \in Seq(Keys)
      BY <3>1, QueueType DEF OpenInv, OpenTypeOK
    <3>3. OpenTypeOK'
      BY <3>1, <3>2 DEF OpenInv, OpenTypeOK, Stages, Upstream, Started, tableVars
    <3>4. GenuineInv'
      BY <3>1 DEF OpenInv, OpenTypeOK, GenuineInv, AnswerIsGenuine, TerminalsFor, tableVars
    <3>5. on[c] = c
      BY <1>4 DEF Deliver, OpenInv, WaitInv
    <3>6. WaitInv'
      BY <3>1, <3>5, CallsAssumption
      DEF OpenInv, OpenTypeOK, WaitInv, NoDanglingWaiter, tableVars
    <3> QED
      BY <3>3, <3>4, <3>6 DEF OpenInv
  <2>2. CASE ~(slot # 0 /\ Len(down) < Channel)
    BY <1>4, <2>2, DeliveryFails DEF Deliver
  <2> QED
    BY <2>1, <2>2
<1>5. CASE TakeRefusal(c)
  BY <1>5, CallRetires, Outcomes DEF TakeRefusal
<1>6. CASE Respond(c)
  <2>1. reply[c] \in TerminalsFor(keyOf[c]) /\ watch[on[c]] # None
    BY <1>6 DEF Respond, OpenInv, GenuineInv, AnswerIsGenuine, WaitInv
  <2> QED
    BY <1>6, <2>1, CallRetires DEF Respond
<1> QED
  BY <1>1, <1>2, <1>3, <1>4, <1>5, <1>6, CallBegins, CallJoins, CallTakes, CallStores
  DEF CallStep

LEMMA OpenKeeps == OpenInv /\ [Next]_vars => OpenInv'
<1> SUFFICES ASSUME OpenInv, [Next]_vars PROVE OpenInv'
  OBVIOUS
<1>1. CASE UNCHANGED vars
  BY <1>1, PublisherMoves
  DEF vars, wireVars, daemonVars, OpenInv, OpenTypeOK
<1> QED
  BY <1>1, CallKeeps, Swept, ConnectionKeeps, PublisherKeeps, ShellSpawned, RelayHears DEF Next

LEMMA OpenStarts == OpenInit => OpenInv
<1> SUFFICES ASSUME OpenInit PROVE OpenInv
  OBVIOUS
<1>1. OpenTypeOK
  BY DEF OpenInit, OpenTypeOK, Stages, Upstream, Started
<1>2. GenuineInv
  BY Outcomes DEF OpenInit, GenuineInv, AnswerIsGenuine, TerminalsFor
<1>3. WaitInv
  BY CallsAssumption DEF OpenInit, WaitInv, NoDanglingWaiter
<1> QED
  BY <1>1, <1>2, <1>3 DEF OpenInv

(* AnswerIsGenuine, always: no order of retries, timeouts, late answers    *)
(* and reconnections tells a caller, or stores for its key, a terminal     *)
(* opened for another key or not open at the relay.                        *)
THEOREM AnswersAreGenuine == OpenSpec => []AnswerIsGenuine
<1>1. OpenInv => AnswerIsGenuine
  BY DEF OpenInv, GenuineInv
<1> QED
  BY <1>1, OpenStarts, OpenKeeps, PTL DEF OpenSpec

(* NoDanglingWaiter, always: finish_open_request removes the entry under a *)
(* key whoever created it, and still never one that another call waits on  *)
(* unanswered.                                                             *)
THEOREM NobodyDangles == OpenSpec => []NoDanglingWaiter
<1>1. OpenInv => NoDanglingWaiter
  BY DEF OpenInv, WaitInv
<1> QED
  BY <1>1, OpenStarts, OpenKeeps, PTL DEF OpenSpec

-----------------------------------------------------------------------------
(* A terminal is never lost to a retry.  The argument is about the one     *)
(* request in flight: from the moment a handler delivers it, it is in one  *)
(* place - a queue, a shell, a refusal on its way back - and while it is   *)
(* anywhere, its entry is in the table or its terminal in the record.      *)

In(x, q) == \E i \in 1..Len(q) : q[i] = x
Once(x, q) == \A i, j \in 1..Len(q) : q[i] = x /\ q[j] = x => i = j

LiveShells(k) == {s \in Shells : shell[s] \in {"starting", "running"} /\ shellKey[s] = k}
Declined(k) == <<"decline", k>>
Open(s) == <<"open", s>>

(* Nothing is in flight for the key. *)
Idle(k) ==
  ~In(k, down) /\ ~In(k, inbox) /\ ~In(Declined(k), up) /\ LiveShells(k) = {}

(* At most one thing is in flight for the key. *)
Single(k) ==
  /\ Once(k, down) /\ Once(k, inbox) /\ Once(Declined(k), up)
  /\ \A s, t \in LiveShells(k) : s = t
  /\ In(k, down) => ~In(k, inbox) /\ ~In(Declined(k), up) /\ LiveShells(k) = {}
  /\ In(k, inbox) => ~In(Declined(k), up) /\ LiveShells(k) = {}
  /\ In(Declined(k), up) => LiveShells(k) = {}

(* A key that was not withdrawn and has no record. *)
Pursued(k) == k \notin withdrawn /\ record[k] = None

(* The entry's creator has not delivered its request, or was refused. *)
Fruitless(c) == on[c] = c /\ (call[c] = "begun" \/ watch[c] \in Refusals)

FlightInv ==
  /\ \A k \in Keys : Pursued(k) =>
       /\ Single(k)
       /\ pending[k] = Nobody => Idle(k)
       /\ \A c \in Calls : pending[k] = c /\ Fruitless(c) => Idle(k)
       /\ \A c \in Calls : pending[k] = c /\ call[c] = "begun" => watch[c] = None
  /\ \A c \in Calls : call[c] \in {"new", "looked", "admitted"} =>
       watch[c] = None /\ \A k \in Keys : pending[k] # c
  /\ \A c \in Calls : call[c] = "stored" => record[keyOf[c]] # None

(* An open is sent once on a connection, and the shells the relay opened   *)
(* run.                                                                    *)
SentInv ==
  /\ \A s \in opened : shell[s] = "running"
  /\ \A s \in Shells : In(Open(s), up) =>
       shell[s] = "running" /\ sentOn[s] = link /\ Once(Open(s), up)
  /\ sentOn \in [Shells -> Nat]
  /\ link \in Nat /\ conns \in Nat

(* What is in a queue, and how often, after an element was appended. *)
LEMMA AppendIn ==
  ASSUME NEW S, NEW q \in Seq(S), NEW y \in S, NEW x
  PROVE  /\ In(x, Append(q, y)) <=> In(x, q) \/ x = y
         /\ Once(x, q) /\ (x = y => ~In(x, q)) => Once(x, Append(q, y))
<1>1. /\ Len(Append(q, y)) = Len(q) + 1 /\ Len(q) \in Nat
      /\ \A i \in 1..Len(q) : Append(q, y)[i] = q[i]
      /\ Append(q, y)[Len(q) + 1] = y
  OBVIOUS
<1> DEFINE r == Append(q, y)
<1> HIDE DEF r
<1>2. /\ Len(r) = Len(q) + 1 /\ Len(q) \in Nat
      /\ \A i \in 1..Len(q) : r[i] = q[i]
      /\ r[Len(q) + 1] = y
  BY <1>1 DEF r
<1>3. In(x, r) <=> In(x, q) \/ x = y
  BY <1>2 DEF In
<1>4. Once(x, q) /\ (x = y => ~In(x, q)) => Once(x, r)
  BY <1>2 DEF In, Once
<1> QED
  BY <1>3, <1>4 DEF r

(* The same after the first element was taken. *)
LEMMA TailIn ==
  ASSUME NEW S, NEW q \in Seq(S), q # <<>>, NEW x
  PROVE  /\ In(x, Tail(q)) => In(x, q)
         /\ In(Head(q), q) /\ In(q[1], q)
         /\ Once(x, q) => Once(x, Tail(q)) /\ (x = Head(q) => ~In(x, Tail(q)))
<1> DEFINE r == Tail(q)
<1>1. /\ Len(q) \in Nat /\ Len(q) > 0 /\ Len(r) = Len(q) - 1
      /\ \A i \in 1..Len(r) : r[i] = q[i + 1]
      /\ Head(q) = q[1]
  OBVIOUS
<1> HIDE DEF r
<1>2. In(x, r) => In(x, q)
  BY <1>1 DEF In
<1>3. In(Head(q), q) /\ In(q[1], q)
  BY <1>1 DEF In
<1>4. Once(x, q) => Once(x, r)
  BY <1>1 DEF Once
<1>5. Once(x, q) /\ x = Head(q) => ~In(x, r)
  BY <1>1 DEF Once, In
<1> QED
  BY <1>2, <1>3, <1>4, <1>5 DEF r

LEMMA EmptyIn == \A x : ~In(x, <<>>) /\ Once(x, <<>>)
BY DEF In, Once

(* What is in flight for one key stays as it is. *)
LEMMA FlightSame ==
  ASSUME UNCHANGED <<down, inbox, up, shell, shellKey>>
  PROVE  \A k : (Idle(k)' <=> Idle(k)) /\ (Single(k)' <=> Single(k))
BY DEF Idle, Single, LiveShells, Declined

(* A step of the handler that leaves the table, the record and the queues. *)
LEMMA FlightOfCall ==
  ASSUME OpenInv, FlightInv, NEW c \in Calls, NEW to \in Stages \ {"begun", "stored"},
         Goes(c, to),
         to \in {"looked", "admitted"} => call[c] \in {"new", "looked"},
         to # "new", on' \in [Calls -> Calls \cup {Nobody}],
         \A d \in Calls : on'[d] = d => on[d] = d,
         UNCHANGED <<tableVars, record, down, inbox, up, shell, shellKey>>
  PROVE  FlightInv'
<1>1. \A k : (Idle(k)' <=> Idle(k)) /\ (Single(k)' <=> Single(k))
  BY FlightSame
<1>2. \A d \in Calls : Fruitless(d)' => Fruitless(d)
  BY DEF Fruitless, tableVars, Goes, OpenInv, OpenTypeOK
<1>3. \A d \in Calls : call'[d] = IF d = c THEN to ELSE call[d]
  BY DEF Goes, OpenInv, OpenTypeOK
<1>4. \A k \in Keys : Pursued(k)' <=> Pursued(k)
  BY DEF Pursued, tableVars
<1> QED
  BY <1>1, <1>2, <1>3, <1>4 DEF FlightInv, tableVars, Goes

(* An entry is created for a key that has nothing in flight. *)
LEMMA FlightOfBegin ==
  ASSUME OpenInv, FlightInv, NEW c \in Calls, Begin(c)
  PROVE  FlightInv'
<1>1. /\ call[c] = "admitted"
      /\ pending[keyOf[c]] = Nobody /\ pending' = [pending EXCEPT ![keyOf[c]] = c]
      /\ on' = [on EXCEPT ![c] = c] /\ call' = [call EXCEPT ![c] = "begun"]
      /\ UNCHANGED <<keyOf, reply, watch, withdrawn, record, down, up, inbox, shell,
                     shellKey, opened>>
  BY DEF Begin, Goes, wireVars, daemonVars
<1>2. \A k : (Idle(k)' <=> Idle(k)) /\ (Single(k)' <=> Single(k))
  BY <1>1, FlightSame
<1>3. \A d \in Calls : d # c => (Fruitless(d)' <=> Fruitless(d))
  BY <1>1 DEF Fruitless, OpenInv, OpenTypeOK
<1>4. \A k \in Keys : Pursued(k)' <=> Pursued(k)
  BY <1>1 DEF Pursued
<1>5. watch[c] = None /\ \A k \in Keys : pending[k] # c
  BY <1>1 DEF FlightInv
<1>6. \A k \in Keys : pending'[k] = IF k = keyOf[c] THEN c ELSE pending[k]
  BY <1>1 DEF OpenInv, OpenTypeOK
<1>7. \A d \in Calls : call'[d] = IF d = c THEN "begun" ELSE call[d]
  BY <1>1 DEF OpenInv, OpenTypeOK
<1>8. ASSUME NEW k \in Keys, Pursued(k)'
      PROVE  /\ Single(k)' /\ (pending'[k] = Nobody => Idle(k)')
             /\ \A d \in Calls : pending'[k] = d /\ Fruitless(d)' => Idle(k)'
             /\ \A d \in Calls : pending'[k] = d /\ call'[d] = "begun" => watch'[d] = None
  <2>1. CASE k = keyOf[c]
    BY <1>1, <1>2, <1>4, <1>5, <1>6, <1>8, <2>1, CallsAssumption DEF FlightInv
  <2>2. CASE k # keyOf[c]
    BY <1>1, <1>2, <1>3, <1>4, <1>5, <1>6, <1>7, <1>8, <2>2 DEF FlightInv
  <2> QED
    BY <2>1, <2>2
<1>9. \A d \in Calls : call'[d] \in {"new", "looked", "admitted"} =>
        watch'[d] = None /\ \A k \in Keys : pending'[k] # d
  BY <1>1, <1>6, <1>7 DEF FlightInv
<1>10. \A d \in Calls : call'[d] = "stored" => record'[keyOf'[d]] # None
  BY <1>1, <1>7 DEF FlightInv
<1> QED
  BY <1>8, <1>9, <1>10 DEF FlightInv

(* An entry's creator retires it: it was refused, and nothing is in        *)
(* flight, or its record is stored.                                        *)
LEMMA FlightOfRetire ==
  ASSUME OpenInv, FlightInv, NEW c \in Calls, NEW what, Answers(c, what), RetireEntry(c),
         watch[on[c]] \in Refusals \/ call[c] = "stored",
         UNCHANGED <<watch, withdrawn, record, down, inbox, up, shell, shellKey>>
  PROVE  FlightInv'
<1>1. CASE on[c] # c
  <2>1. on' = [on EXCEPT ![c] = Nobody] /\ UNCHANGED tableVars /\ Goes(c, "done")
    BY <1>1 DEF RetireEntry, tableVars, Answers
  <2>2. /\ on' \in [Calls -> Calls \cup {Nobody}]
        /\ \A d \in Calls : on'[d] = d => on[d] = d
    BY <2>1, CallsAssumption DEF OpenInv, OpenTypeOK
  <2> QED
    BY <2>1, <2>2, FlightOfCall DEF Stages
<1>2. CASE on[c] = c
  <2>1. /\ pending' = [pending EXCEPT ![keyOf[c]] = Nobody]
        /\ on' = [on EXCEPT ![c] = Nobody] /\ call' = [call EXCEPT ![c] = "done"]
        /\ UNCHANGED keyOf
    BY <1>2 DEF RetireEntry, Finish, Answers, Goes
  <2>2. \A k : (Idle(k)' <=> Idle(k)) /\ (Single(k)' <=> Single(k))
    BY FlightSame
  <2>3. \A d \in Calls : Fruitless(d)' => Fruitless(d)
    BY <2>1, CallsAssumption DEF Fruitless, OpenInv, OpenTypeOK
  <2>4. \A k \in Keys : Pursued(k)' <=> Pursued(k)
    BY DEF Pursued
  <2>5. \A k \in Keys : pending'[k] = IF k = keyOf[c] THEN Nobody ELSE pending[k]
    BY <2>1 DEF OpenInv, OpenTypeOK
  <2>6. \A d \in Calls : call'[d] = IF d = c THEN "done" ELSE call[d]
    BY <2>1 DEF OpenInv, OpenTypeOK
  <2>7. Pursued(keyOf[c]) => Idle(keyOf[c])
    <3> SUFFICES ASSUME Pursued(keyOf[c]) PROVE Idle(keyOf[c])
      OBVIOUS
    <3>1. keyOf[c] \in Keys /\ pending[keyOf[c]] = c
      BY <1>2 DEF Pursued, OpenInv, OpenTypeOK, WaitInv
    <3>2. Fruitless(c)
      BY <1>2 DEF FlightInv, Pursued, Fruitless
    <3> QED
      BY <3>1, <3>2 DEF FlightInv
  <2>8. ASSUME NEW k \in Keys, Pursued(k)'
        PROVE  /\ Single(k)' /\ (pending'[k] = Nobody => Idle(k)')
               /\ \A d \in Calls : pending'[k] = d /\ Fruitless(d)' => Idle(k)'
               /\ \A d \in Calls : pending'[k] = d /\ call'[d] = "begun" => watch'[d] = None
    BY <2>2, <2>3, <2>4, <2>5, <2>6, <2>7, <2>8, CallsAssumption DEF FlightInv
  <2>9. \A d \in Calls : call'[d] \in {"new", "looked", "admitted"} =>
          watch'[d] = None /\ \A k \in Keys : pending'[k] # d
    BY <2>5, <2>6, CallsAssumption DEF FlightInv
  <2>10. \A d \in Calls : call'[d] = "stored" => record'[keyOf'[d]] # None
    BY <2>1, <2>6 DEF FlightInv
  <2> QED
    BY <2>8, <2>9, <2>10 DEF FlightInv
<1> QED
  BY <1>1, <1>2

(* The record is stored. *)
LEMMA FlightOfStore ==
  ASSUME OpenInv, FlightInv, NEW c \in Calls, Store(c)
  PROVE  FlightInv'
<1>1. /\ call[c] = "opened" /\ call' = [call EXCEPT ![c] = "stored"]
      /\ record' = [record EXCEPT ![keyOf[c]] = IF @ = None THEN reply[c] ELSE @]
      /\ UNCHANGED <<keyOf, on, reply, pending, watch, withdrawn, down, up, inbox, shell,
                     shellKey, opened>>
  BY DEF Store, PutIdempotent, Goes, wireVars, daemonVars, tableVars
<1>2. reply[c] # None
  BY <1>1, Outcomes DEF OpenInv, GenuineInv
<1>3. \A k : (Idle(k)' <=> Idle(k)) /\ (Single(k)' <=> Single(k))
  BY <1>1, FlightSame
<1>4. \A d \in Calls : Fruitless(d)' => Fruitless(d)
  BY <1>1 DEF Fruitless, OpenInv, OpenTypeOK
<1>5. \A k \in Keys : /\ record'[k] = None => record[k] = None
                      /\ k = keyOf[c] => record'[k] # None
  BY <1>1, <1>2 DEF OpenInv, OpenTypeOK
<1>6. \A k \in Keys : Pursued(k)' => Pursued(k)
  BY <1>1, <1>5 DEF Pursued
<1>7. \A d \in Calls : call'[d] = IF d = c THEN "stored" ELSE call[d]
  BY <1>1 DEF OpenInv, OpenTypeOK
<1>8. \A d \in Calls : call'[d] = "stored" => record'[keyOf'[d]] # None
  BY <1>1, <1>5, <1>7 DEF FlightInv, OpenInv, OpenTypeOK
<1> QED
  BY <1>1, <1>3, <1>4, <1>6, <1>7, <1>8 DEF FlightInv

(* The one request of an entry sets out, or never does. *)
LEMMA FlightOfDeliver ==
  ASSUME OpenInv, FlightInv, NEW c \in Calls, Deliver(c)
  PROVE  FlightInv'
<1> DEFINE key == keyOf[c]
<1>1. /\ call[c] = "begun" /\ on[c] = c /\ key \in Keys /\ c # Nobody
      /\ key \notin withdrawn => pending[key] = c
  BY CallsAssumption DEF Deliver, OpenInv, OpenTypeOK, WaitInv
<1>2. UNCHANGED <<keyOf, pending, withdrawn, record, up, inbox, shell, shellKey>>
  BY DEF Deliver, Goes, Answers, daemonVars
<1>3. \A k \in Keys : Pursued(k)' <=> Pursued(k)
  BY <1>2 DEF Pursued
<1>4. Pursued(key) => Idle(key) /\ watch[c] = None
  BY <1>1 DEF FlightInv, Fruitless, Pursued
<1>5. CASE slot # 0 /\ Len(down) < Channel
  <2>1. down' = Append(down, key) /\ call' = [call EXCEPT ![c] = "waiting"]
        /\ UNCHANGED <<on, watch>>
    BY <1>5 DEF Deliver, Goes
  <2>2. \A d \in Calls : call'[d] = IF d = c THEN "waiting" ELSE call[d]
    BY <2>1 DEF OpenInv, OpenTypeOK
  <2>3. \A k \in Keys : /\ In(k, down') <=> In(k, down) \/ k = key
                        /\ Once(k, down) /\ (k = key => ~In(k, down)) => Once(k, down')
    BY <1>1, <2>1, AppendIn DEF OpenInv, OpenTypeOK
  <2>4. \A k \in Keys : k # key => (Idle(k) => Idle(k)') /\ (Single(k) => Single(k)')
    BY <1>2, <2>3 DEF Idle, Single, LiveShells, Declined
  <2>5. Idle(key) /\ Single(key) => Single(key)'
    BY <1>1, <1>2, <2>3 DEF Idle, Single, LiveShells, Declined
  <2>6. \A d \in Calls : Fruitless(d)' => Fruitless(d) /\ (d = c => watch[c] \in Refusals)
    BY <2>1, <2>2 DEF Fruitless
  <2>7. ASSUME NEW k \in Keys, Pursued(k)'
        PROVE  /\ Single(k)' /\ (pending'[k] = Nobody => Idle(k)')
               /\ \A d \in Calls : pending'[k] = d /\ Fruitless(d)' => Idle(k)'
               /\ \A d \in Calls : pending'[k] = d /\ call'[d] = "begun" => watch'[d] = None
    <3>1. CASE k = key
      <4>1. pending[k] = c /\ ~(watch[c] \in Refusals)
        BY <1>1, <1>3, <1>4, <2>7, <3>1, Outcomes DEF Pursued
      <4> QED
        BY <1>1, <1>2, <1>3, <1>4, <2>2, <2>5, <2>6, <2>7, <3>1, <4>1 DEF FlightInv
    <3>2. CASE k # key
      BY <1>2, <1>3, <2>1, <2>2, <2>4, <2>6, <2>7, <3>2 DEF FlightInv
    <3> QED
      BY <3>1, <3>2
  <2>8. \A d \in Calls : call'[d] \in {"new", "looked", "admitted"} =>
          watch'[d] = None /\ \A k \in Keys : pending'[k] # d
    BY <1>2, <2>1, <2>2 DEF FlightInv
  <2>9. \A d \in Calls : call'[d] = "stored" => record'[keyOf'[d]] # None
    BY <1>2, <2>2 DEF FlightInv
  <2> QED
    BY <2>7, <2>8, <2>9 DEF FlightInv
<1>6. CASE ~(slot # 0 /\ Len(down) < Channel)
  <2>1. /\ on' = [on EXCEPT ![c] = Nobody] /\ call' = [call EXCEPT ![c] = "done"]
        /\ Resolve(key, "unavailable") /\ UNCHANGED down
    BY <1>6 DEF Deliver, Answers, Goes
  <2>2. \A d \in Calls : /\ call'[d] = IF d = c THEN "done" ELSE call[d]
                         /\ on'[d] = IF d = c THEN Nobody ELSE on[d]
    BY <2>1 DEF OpenInv, OpenTypeOK
  <2>3. \A d \in Calls : watch'[d] = watch[d] \/ d = pending[key]
    BY <2>1 DEF Resolve, OpenInv, OpenTypeOK
  <2>4. \A k : (Idle(k)' <=> Idle(k)) /\ (Single(k)' <=> Single(k))
    BY <1>2, <2>1, FlightSame
  <2>5. \A d \in Calls : Fruitless(d)' => d # c /\ (d = pending[key] \/ Fruitless(d))
    BY <1>1, <2>2, <2>3 DEF Fruitless
  <2>6. \A k \in Keys : Pursued(k) /\ pending[k] \in Calls /\ pending[k] = pending[key] =>
          pending[k] = c
    <3>1. \A k \in Keys : pending[k] \in Calls /\ pending[k] = pending[key] => k = key
      BY <1>1, CallsAssumption DEF OpenInv, GenuineInv
    <3> QED
      BY <1>1, <3>1 DEF Pursued
  <2>7. ASSUME NEW k \in Keys, Pursued(k)'
        PROVE  /\ Single(k)' /\ (pending'[k] = Nobody => Idle(k)')
               /\ \A d \in Calls : pending'[k] = d /\ Fruitless(d)' => Idle(k)'
               /\ \A d \in Calls : pending'[k] = d /\ call'[d] = "begun" => watch'[d] = None
    BY <1>2, <1>3, <2>2, <2>3, <2>4, <2>5, <2>6, <2>7 DEF FlightInv
  <2>8. \A d \in Calls : call'[d] \in {"new", "looked", "admitted"} =>
          watch'[d] = None /\ \A k \in Keys : pending'[k] # d
    BY <1>1, <1>2, <2>2, <2>3 DEF FlightInv
  <2>9. \A d \in Calls : call'[d] = "stored" => record'[keyOf'[d]] # None
    BY <1>2, <2>2 DEF FlightInv
  <2> QED
    BY <2>7, <2>8, <2>9 DEF FlightInv
<1> QED
  BY <1>5, <1>6

(* Entries go with the keys they withdraw; what is in flight may only      *)
(* become less.                                                            *)
LEMMA FlightOfWithdrawal ==
  ASSUME OpenInv, FlightInv, UNCHANGED <<callVars, record>>,
         FailAll \/ UNCHANGED tableVars \/ \E k \in Keys :
           Finish(k) /\ withdrawn' = withdrawn \cup {k} /\ UNCHANGED watch,
         \A k \in Keys : (Idle(k) => Idle(k)') /\ (Single(k) => Single(k)')
  PROVE  FlightInv'
<1>1. \A k \in Keys : pending'[k] = pending[k] \/ (pending'[k] = Nobody /\ k \in withdrawn')
                      \/ (pending'[k] = Nobody /\ pending[k] = Nobody)
  BY DEF FailAll, Finish, tableVars, OpenInv, OpenTypeOK
<1>2. withdrawn \subseteq withdrawn'
  BY DEF FailAll, tableVars
<1>3. \A d \in Calls : watch'[d] = watch[d] \/ \E k \in Keys : pending[k] = d
  BY DEF FailAll, tableVars
<1>4. \A k \in Keys, d \in Calls : pending'[k] = d => watch'[d] = watch[d]
  BY CallsAssumption DEF FailAll, Finish, tableVars, OpenInv, OpenTypeOK
<1>5. \A k \in Keys : Pursued(k)' => Pursued(k)
  BY <1>2 DEF Pursued
<1>6. \A d \in Calls : watch'[d] = watch[d] => (Fruitless(d)' <=> Fruitless(d))
  BY DEF Fruitless, callVars
<1>7. ASSUME NEW k \in Keys, Pursued(k)'
      PROVE  /\ Single(k)' /\ (pending'[k] = Nobody => Idle(k)')
             /\ \A d \in Calls : pending'[k] = d /\ Fruitless(d)' => Idle(k)'
             /\ \A d \in Calls : pending'[k] = d /\ call'[d] = "begun" => watch'[d] = None
  <2>1. Pursued(k) /\ pending'[k] = pending[k]
    BY <1>1, <1>5, <1>7 DEF Pursued
  <2> QED
    BY <1>4, <1>6, <2>1 DEF FlightInv, callVars
<1>8. \A d \in Calls : call'[d] \in {"new", "looked", "admitted"} =>
        watch'[d] = None /\ \A k \in Keys : pending'[k] # d
  BY <1>1, <1>3, CallsAssumption DEF FlightInv, callVars
<1>9. \A d \in Calls : call'[d] = "stored" => record'[keyOf'[d]] # None
  BY DEF FlightInv, callVars
<1> QED
  BY <1>7, <1>8, <1>9 DEF FlightInv

(* An answer arrives: it was the one thing in flight, and a refusal ends   *)
(* the flight.                                                             *)
LEMMA FlightOfAnswer ==
  ASSUME OpenInv, FlightInv, UNCHANGED <<callVars, pending, withdrawn, record>>,
         NEW key \in Keys, NEW outcome \in Shells \cup Refusals, Resolve(key, outcome),
         \A k \in Keys : (Idle(k) => Idle(k)') /\ (Single(k) => Single(k)'),
         ~Idle(key),
         outcome \in Refusals => (Single(key) => Idle(key)')
  PROVE  FlightInv'
<1>1. \A d \in Calls : watch'[d] = watch[d] \/ (d = pending[key] /\ watch'[d] = outcome)
  BY DEF Resolve, OpenInv, OpenTypeOK
<1>2. \A k \in Keys : Pursued(k)' <=> Pursued(k)
  BY DEF Pursued
<1>3. \A d \in Calls : watch'[d] = watch[d] => (Fruitless(d)' <=> Fruitless(d))
  BY DEF Fruitless, callVars
<1>4. \A k \in Keys : pending[k] \in Calls /\ pending[k] = pending[key] => k = key
  BY CallsAssumption DEF OpenInv, GenuineInv
<1>5. ASSUME NEW k \in Keys, Pursued(k)'
      PROVE  /\ Single(k)' /\ (pending'[k] = Nobody => Idle(k)')
             /\ \A d \in Calls : pending'[k] = d /\ Fruitless(d)' => Idle(k)'
             /\ \A d \in Calls : pending'[k] = d /\ call'[d] = "begun" => watch'[d] = None
  <2>1. Pursued(k) /\ Single(k) /\ Single(k)'
    BY <1>2, <1>5 DEF FlightInv
  <2>2. ASSUME NEW d \in Calls, pending'[k] = d, Fruitless(d)' PROVE Idle(k)'
    <3>1. CASE watch'[d] = watch[d]
      BY <1>3, <2>1, <2>2, <3>1 DEF FlightInv
    <3>2. CASE watch'[d] # watch[d]
      <4>1. k = key /\ watch'[d] = outcome
        BY <1>1, <1>4, <2>2, <3>2
      <4>2. CASE outcome \in Refusals
        BY <2>1, <4>1, <4>2
      <4>3. CASE outcome \notin Refusals
        <5>1. Fruitless(d)
          BY <2>2, <4>1, <4>3 DEF Fruitless, callVars
        <5> QED
          BY <2>1, <2>2, <5>1 DEF FlightInv
      <4> QED
        BY <4>2, <4>3
    <3> QED
      BY <3>1, <3>2
  <2>3. ASSUME NEW d \in Calls, pending'[k] = d, call'[d] = "begun" PROVE watch'[d] = None
    <3>1. pending[k] = d /\ call[d] = "begun" /\ on[d] = d
      BY <2>3 DEF callVars, OpenInv, WaitInv
    <3>2. Idle(k) /\ watch[d] = None
      BY <2>1, <3>1 DEF FlightInv, Fruitless
    <3> QED
      BY <1>1, <1>4, <3>1, <3>2
  <2> QED
    BY <2>1, <2>2, <2>3 DEF FlightInv
<1>6. \A d \in Calls : call'[d] \in {"new", "looked", "admitted"} =>
        watch'[d] = None /\ \A k \in Keys : pending'[k] # d
  BY <1>1 DEF FlightInv, callVars
<1>7. \A d \in Calls : call'[d] = "stored" => record'[keyOf'[d]] # None
  BY DEF FlightInv, callVars
<1> QED
  BY <1>5, <1>6, <1>7 DEF FlightInv

-----------------------------------------------------------------------------
(* The flight itself: where the request goes, and that it is one. *)

(* Queues are emptied, a shell dies. *)
LEMMA FlightLost ==
  ASSUME down' \in {down, <<>>}, up' \in {up, <<>>}, inbox' = inbox, shellKey' = shellKey,
         \A k \in Keys : LiveShells(k)' \subseteq LiveShells(k)
  PROVE  \A k \in Keys : (Idle(k) => Idle(k)') /\ (Single(k) => Single(k)')
<1> SUFFICES ASSUME NEW k \in Keys PROVE (Idle(k) => Idle(k)') /\ (Single(k) => Single(k)')
  OBVIOUS
<1>1. /\ In(k, down') => In(k, down)
      /\ Once(k, down) => Once(k, down')
      /\ In(Declined(k)', up') => In(Declined(k), up)
      /\ Once(Declined(k), up) => Once(Declined(k)', up')
      /\ LiveShells(k)' \subseteq LiveShells(k)
  BY EmptyIn DEF Declined
<1>2. Idle(k) => Idle(k)'
  BY <1>1 DEF Idle
<1>3. Single(k) => Single(k)'
  BY <1>1 DEF Single
<1> QED
  BY <1>2, <1>3

(* on_frame passes the request on, or declines it. *)
LEMMA FlightOfReceive ==
  ASSUME OpenInv, ReceiveRequest
  PROVE  \A k \in Keys : (Idle(k) => Idle(k)') /\ (Single(k) => Single(k)')
<1> SUFFICES ASSUME NEW k \in Keys PROVE (Idle(k) => Idle(k)') /\ (Single(k) => Single(k)')
  OBVIOUS
<1> DEFINE key == Head(down)
<1>1. /\ down \in Seq(Keys) /\ down # <<>> /\ down' = Tail(down) /\ key \in Keys
      /\ inbox \in Seq(Keys) /\ up \in Seq(Upstream)
      /\ UNCHANGED <<shell, shellKey>>
      /\ \/ inbox' = Append(inbox, key) /\ UNCHANGED up
         \/ up' = Append(up, Declined(key)) /\ UNCHANGED inbox
  BY QueueType DEF ReceiveRequest, Declines, Declined, OpenInv, OpenTypeOK
<1>2. /\ In(k, down') => In(k, down)
      /\ Once(k, down) => Once(k, down') /\ (k = key => ~In(k, down'))
      /\ In(key, down)
  BY <1>1, TailIn
<1>3. Declined(key) \in Upstream /\ (Declined(k) = Declined(key) <=> k = key)
  BY <1>1 DEF Declined, Upstream
<1>4. LiveShells(k)' = LiveShells(k) /\ Declined(k)' = Declined(k)
  BY <1>1 DEF LiveShells, Declined
<1> HIDE DEF key
<1>5. CASE inbox' = Append(inbox, key) /\ UNCHANGED up
  <2>1. /\ In(k, inbox') <=> In(k, inbox) \/ k = key
        /\ Once(k, inbox) /\ (k = key => ~In(k, inbox)) => Once(k, inbox')
    BY <1>1, <1>5, AppendIn
  <2> QED
    BY <1>2, <1>4, <1>5, <2>1 DEF Idle, Single
<1>6. CASE up' = Append(up, Declined(key)) /\ UNCHANGED inbox
  <2>1. /\ In(Declined(k), up') <=> In(Declined(k), up) \/ k = key
        /\ Once(Declined(k), up) /\ (k = key => ~In(Declined(k), up)) => Once(Declined(k), up')
    BY <1>1, <1>3, <1>6, AppendIn
  <2> QED
    BY <1>2, <1>4, <1>6, <2>1 DEF Idle, Single
<1> QED
  BY <1>1, <1>5, <1>6

(* host_for_request declines the request. *)
LEMMA FlightOfDecline ==
  ASSUME OpenInv, HostDeclines
  PROVE  \A k \in Keys : (Idle(k) => Idle(k)') /\ (Single(k) => Single(k)')
<1> SUFFICES ASSUME NEW k \in Keys PROVE (Idle(k) => Idle(k)') /\ (Single(k) => Single(k)')
  OBVIOUS
<1> DEFINE key == Head(inbox)
<1>1. /\ inbox \in Seq(Keys) /\ inbox # <<>> /\ inbox' = Tail(inbox) /\ key \in Keys
      /\ up \in Seq(Upstream) /\ UNCHANGED <<down, shell, shellKey>>
      /\ UNCHANGED up \/ up' = Append(up, Declined(key))
  BY QueueType DEF HostDeclines, Declines, Declined, OpenInv, OpenTypeOK
<1>2. /\ In(k, inbox') => In(k, inbox)
      /\ Once(k, inbox) => Once(k, inbox') /\ (k = key => ~In(k, inbox'))
      /\ In(key, inbox)
  BY <1>1, TailIn
<1>3. Declined(key) \in Upstream /\ (Declined(k) = Declined(key) <=> k = key)
  BY <1>1 DEF Declined, Upstream
<1>4. LiveShells(k)' = LiveShells(k) /\ Declined(k)' = Declined(k)
  BY <1>1 DEF LiveShells, Declined
<1> HIDE DEF key
<1>5. CASE UNCHANGED up
  BY <1>1, <1>2, <1>4, <1>5 DEF Idle, Single
<1>6. CASE up' = Append(up, Declined(key))
  <2>1. /\ In(Declined(k), up') <=> In(Declined(k), up) \/ k = key
        /\ Once(Declined(k), up) /\ (k = key => ~In(Declined(k), up)) => Once(Declined(k), up')
    BY <1>1, <1>3, <1>6, AppendIn
  <2> QED
    BY <1>1, <1>2, <1>4, <2>1 DEF Idle, Single
<1> QED
  BY <1>1, <1>5, <1>6

(* A shell is started for it. *)
LEMMA FlightOfSpawn ==
  ASSUME OpenInv, HostSpawns
  PROVE  \A k \in Keys : (Idle(k) => Idle(k)') /\ (Single(k) => Single(k)')
<1> SUFFICES ASSUME NEW k \in Keys PROVE (Idle(k) => Idle(k)') /\ (Single(k) => Single(k)')
  OBVIOUS
<1> DEFINE key == Head(inbox)
<1>1. PICK s \in Shells :
        /\ shell[s] = "none" /\ shell' = [shell EXCEPT ![s] = "starting"]
        /\ shellKey' = [shellKey EXCEPT ![s] = key]
  BY DEF HostSpawns
<1>2. /\ inbox \in Seq(Keys) /\ inbox # <<>> /\ inbox' = Tail(inbox)
      /\ UNCHANGED <<down, up>>
  BY DEF HostSpawns, OpenInv, OpenTypeOK, wireVars
<1>3. /\ In(k, inbox') => In(k, inbox)
      /\ Once(k, inbox) => Once(k, inbox') /\ (k = key => ~In(k, inbox'))
      /\ In(key, inbox)
  BY <1>2, TailIn
<1> HIDE DEF key
<1>4. LiveShells(k)' = IF k = key THEN LiveShells(k) \cup {s} ELSE LiveShells(k)
  BY <1>1 DEF LiveShells, OpenInv, OpenTypeOK
<1>5. Declined(k)' = Declined(k)
  BY DEF Declined
<1> QED
  BY <1>2, <1>3, <1>4, <1>5 DEF Idle, Single

(* An open message is nobody's decline. *)
LEMMA FlightOfSend ==
  ASSUME OpenInv, NEW s \in Shells, SendOpen(s)
  PROVE  \A k \in Keys : (Idle(k) => Idle(k)') /\ (Single(k) => Single(k)')
<1> SUFFICES ASSUME NEW k \in Keys PROVE (Idle(k) => Idle(k)') /\ (Single(k) => Single(k)')
  OBVIOUS
<1>1. /\ up \in Seq(Upstream) /\ up' = Append(up, Open(s)) /\ shell[s] = "running"
      /\ UNCHANGED <<down, inbox, shell, shellKey>>
  BY DEF SendOpen, Open, OpenInv, OpenTypeOK
<1>2. Open(s) \in Upstream /\ Declined(k) # Open(s)
  BY <1>1 DEF Open, Upstream, Started, Declined
<1>3. /\ In(Declined(k), up') <=> In(Declined(k), up)
      /\ Once(Declined(k), up) => Once(Declined(k), up')
  BY <1>1, <1>2, AppendIn
<1>4. LiveShells(k)' = LiveShells(k) /\ Declined(k)' = Declined(k)
  BY <1>1 DEF LiveShells, Declined
<1> QED
  BY <1>1, <1>3, <1>4 DEF Idle, Single

(* What the first message upstream is. *)
LEMMA FirstMessage ==
  ASSUME OpenInv, up # <<>>
  PROVE  /\ up \in Seq(Upstream) /\ Head(up) = up[1]
         /\ up[1][1] = "open" => up[1][2] \in Shells /\ up[1] = Open(up[1][2])
                                 /\ shellKey[up[1][2]] \in Keys
         /\ up[1][1] = "decline" => up[1][2] \in Keys /\ up[1] = Declined(up[1][2])
<1>1. up \in Seq(Upstream) /\ up[1] \in Upstream /\ Head(up) = up[1]
  BY QueueType DEF OpenInv, OpenTypeOK
<1> QED
  BY <1>1, FirstUpstream DEF Upstream, Open, Declined, Started

(* An open message leaves the queue, and its shell stays as it is or is    *)
(* refused.                                                                *)
LEMMA FlightOfOpen ==
  ASSUME OpenInv, NEW s \in Shells, up # <<>>, up[1] = Open(s), up' = Tail(up),
         UNCHANGED <<down, inbox, shellKey>>,
         shell' \in {shell, [shell EXCEPT ![s] = "refused"]}
  PROVE  \A k \in Keys : (Idle(k) => Idle(k)') /\ (Single(k) => Single(k)')
<1> SUFFICES ASSUME NEW k \in Keys PROVE (Idle(k) => Idle(k)') /\ (Single(k) => Single(k)')
  OBVIOUS
<1>1. /\ In(Declined(k), up') => In(Declined(k), up)
      /\ Once(Declined(k), up) => Once(Declined(k), up')
  BY TailIn DEF OpenInv, OpenTypeOK
<1>2. LiveShells(k)' \subseteq LiveShells(k) /\ Declined(k)' = Declined(k)
  BY DEF LiveShells, Declined, OpenInv, OpenTypeOK
<1> QED
  BY <1>1, <1>2 DEF Idle, Single

LEMMA FlightOfHearing ==
  ASSUME OpenInv, FlightInv, SentInv, RelayOpens \/ RelayRefuses \/ RelayHearsDecline
  PROVE  FlightInv'
<1>1. up # <<>> /\ up' = Tail(up) /\ up \in Seq(Upstream) /\ Head(up) = up[1]
  BY FirstMessage DEF RelayOpens, RelayRefuses, RelayHearsDecline
<1>2. \A k \in Keys : /\ In(Declined(k), up') => In(Declined(k), up)
                      /\ Once(Declined(k), up) => Once(Declined(k), up')
                      /\ Declined(k)' = Declined(k)
  BY <1>1, TailIn DEF Declined
<1>3. CASE RelayOpens \/ RelayRefuses
  <2>1. PICK s \in Shells : s = up[1][2] /\ up[1] = Open(s) /\ shellKey[s] \in Keys
    BY <1>1, <1>3, FirstMessage DEF RelayOpens, RelayRefuses
  <2>2. PICK key \in Keys : key = shellKey[s]
    BY <2>1
  <2>3. In(Open(s), up)
    BY <1>1, <2>1, TailIn
  <2>4. s \in LiveShells(key)
    BY <2>2, <2>3 DEF SentInv, LiveShells
  <2>5. ~Idle(key)
    BY <2>4 DEF Idle
  <2>6. UNCHANGED <<callVars, pending, withdrawn, record, down, inbox, shellKey>>
    BY <1>3 DEF RelayOpens, RelayRefuses, daemonVars
  <2>7. CASE RelayOpens
    <3>1. Resolve(key, s) /\ UNCHANGED shell
      BY <2>1, <2>2, <2>7 DEF RelayOpens, daemonVars
    <3>2. \A k \in Keys : (Idle(k) => Idle(k)') /\ (Single(k) => Single(k)')
      BY <1>1, <2>1, <2>6, <3>1, FlightOfOpen
    <3> QED
      BY <2>5, <2>6, <3>1, <3>2, FlightOfAnswer, Outcomes
  <2>8. CASE RelayRefuses
    <3>1. Resolve(key, "failed") /\ shell' = [shell EXCEPT ![s] = "refused"]
      BY <2>1, <2>2, <2>8 DEF RelayRefuses
    <3>2. \A k \in Keys : (Idle(k) => Idle(k)') /\ (Single(k) => Single(k)')
      BY <1>1, <2>1, <2>6, <3>1, FlightOfOpen
    <3>3. LiveShells(key)' = LiveShells(key) \ {s}
      BY <2>6, <3>1 DEF LiveShells, OpenInv, OpenTypeOK
    <3>4. Single(key) => Idle(key)'
      BY <1>2, <2>4, <2>6, <3>3 DEF Single, Idle
    <3> QED
      BY <2>5, <2>6, <3>1, <3>2, <3>4, FlightOfAnswer, Outcomes
  <2> QED
    BY <1>3, <2>7, <2>8
<1>4. CASE RelayHearsDecline
  <2>1. PICK key \in Keys : key = up[1][2] /\ up[1] = Declined(key)
    BY <1>1, <1>4, FirstMessage DEF RelayHearsDecline
  <2>2. /\ Resolve(key, "declined")
        /\ UNCHANGED <<callVars, pending, withdrawn, record, down, inbox, shell, shellKey>>
    BY <1>4, <2>1 DEF RelayHearsDecline, daemonVars
  <2>3. In(Declined(key), up) /\ (Once(Declined(key), up) => ~In(Declined(key), up'))
    BY <1>1, <2>1, TailIn
  <2>4. \A k \in Keys : LiveShells(k)' = LiveShells(k)
    BY <2>2 DEF LiveShells
  <2>5. \A k \in Keys : (Idle(k) => Idle(k)') /\ (Single(k) => Single(k)')
    BY <1>2, <2>2, <2>4 DEF Idle, Single
  <2>6. ~Idle(key)
    BY <2>3 DEF Idle
  <2>7. Single(key) => Idle(key)'
    BY <1>2, <2>2, <2>3, <2>4 DEF Single, Idle
  <2> QED
    BY <2>2, <2>5, <2>6, <2>7, FlightOfAnswer, Outcomes
<1> QED
  BY <1>3, <1>4

-----------------------------------------------------------------------------
(* One open for a shell on a connection. *)

(* Opens may leave the queue, and a shell changes unless it runs. *)
LEMMA SentLess ==
  ASSUME OpenInv, SentInv,
         \A s \in Shells : /\ In(Open(s), up') => In(Open(s), up)
                           /\ Once(Open(s), up) => Once(Open(s), up')
                           /\ shell[s] = "running" => shell'[s] = "running",
         opened' = opened, sentOn' = sentOn, conns' \in Nat, link' \in Nat,
         link' = link \/ up' = <<>>
  PROVE  SentInv'
<1>1. \A s \in Shells : Open(s)' = Open(s) /\ ~In(Open(s), <<>>)
  BY EmptyIn DEF Open
<1> QED
  BY <1>1 DEF SentInv, OpenInv, OpenTypeOK, Started

(* The queues the opens are not in. *)
LEMMA SentApart ==
  ASSUME OpenInv, NEW k \in Keys, Declines(k) \/ UNCHANGED up
  PROVE  \A s \in Shells : /\ In(Open(s), up') => In(Open(s), up)
                           /\ Once(Open(s), up) => Once(Open(s), up')
<1>1. CASE UNCHANGED up
  BY <1>1
<1>2. CASE up' = Append(up, Declined(k))
  <2>1. up \in Seq(Upstream) /\ Declined(k) \in Upstream
    BY DEF OpenInv, OpenTypeOK, Upstream, Declined
  <2>2. \A s \in Shells : Open(s) # Declined(k)
    BY DEF Open, Declined
  <2> QED
    BY <1>2, <2>1, <2>2, AppendIn
<1> QED
  BY <1>1, <1>2 DEF Declines, Declined

LEMMA SentKeeps ==
  ASSUME OpenInv, SentInv, [Next]_vars
  PROVE  SentInv'
<1> USE DEF connVars, wireVars, daemonVars
<1>1. CASE UNCHANGED <<up, shell, opened, sentOn, link>> /\ conns' \in Nat
  BY <1>1, SentLess DEF SentInv
<1>2. CASE \E c \in Calls : CallStep(c) \/ Abandon(c)
  <2>1. UNCHANGED <<up, shell, opened, sentOn, link, conns>>
    BY <1>2 DEF CallStep, Abandon, Lookup, Admit, Join, OverLimit, Begin, Deliver, TakeRefusal,
       TakeOpened, GiveUp, Store, Respond
  <2> QED
    BY <1>1, <2>1 DEF SentInv
<1>3. CASE \/ \E k \in Keys : Sweep(k)
           \/ AssertCapability \/ UNCHANGED vars
           \/ \E g \in 1..MaxConns : DetachFails(g) \/ DetachSlot(g)
  <2>1. UNCHANGED <<up, shell, opened, sentOn, link, conns>>
    BY <1>3 DEF Sweep, AssertCapability, DetachFails, DetachSlot, vars
  <2> QED
    BY <1>1, <2>1 DEF SentInv
<1>4. CASE Connect \/ Disconnect
  <2>1. up' = <<>> /\ UNCHANGED <<shell, opened, sentOn>> /\ link' \in Nat /\ conns' \in Nat
    BY <1>4 DEF Connect, Disconnect, SentInv
  <2>2. \A s \in Shells : ~In(Open(s), up') /\ Once(Open(s), up')
    BY <2>1, EmptyIn
  <2> QED
    BY <2>1, <2>2, SentLess
<1>5. CASE ReceiveRequest \/ HostDeclines
  <2>1. PICK k \in Keys : Declines(k) \/ UNCHANGED up
    BY <1>5, QueueType DEF ReceiveRequest, HostDeclines, OpenInv, OpenTypeOK
  <2>2. UNCHANGED <<shell, opened, sentOn, link, conns>>
    BY <1>5 DEF ReceiveRequest, HostDeclines
  <2> QED
    BY <2>1, <2>2, SentApart, SentLess DEF SentInv
<1>6. CASE HostSpawns
  <2>1. PICK s \in Shells : shell[s] = "none" /\ shell' = [shell EXCEPT ![s] = "starting"]
    BY <1>6 DEF HostSpawns
  <2>2. \A t \in Shells : shell[t] = "running" => shell'[t] = "running"
    BY <2>1 DEF OpenInv, OpenTypeOK
  <2>3. UNCHANGED <<up, opened, sentOn, link, conns>>
    BY <1>6 DEF HostSpawns
  <2> QED
    BY <2>2, <2>3, SentLess DEF SentInv
<1>7. ASSUME NEW s \in Shells, NEW to \in {"running", "dead"}, ShellStarts(s, to)
      PROVE  SentInv'
  <2>1. \A t \in Shells : shell[t] = "running" => shell'[t] = "running"
    BY <1>7 DEF ShellStarts, OpenInv, OpenTypeOK
  <2>2. UNCHANGED <<up, opened, sentOn, link, conns>>
    BY <1>7 DEF ShellStarts
  <2> QED
    BY <2>1, <2>2, SentLess DEF SentInv
<1>8. ASSUME NEW s \in Shells, SendOpen(s) PROVE SentInv'
  <2>1. /\ shell[s] = "running" /\ sentOn[s] # link
        /\ sentOn' = [sentOn EXCEPT ![s] = link] /\ up' = Append(up, Open(s))
        /\ UNCHANGED <<shell, opened, link, conns>>
    BY <1>8 DEF SendOpen, Open
  <2>2. up \in Seq(Upstream) /\ Open(s) \in Upstream
    BY <2>1 DEF OpenInv, OpenTypeOK, Upstream, Started, Open
  <2>3. \A t \in Shells : (Open(t) = Open(s) <=> t = s) /\ Open(t)' = Open(t)
    BY DEF Open
  <2>4. ~In(Open(s), up)
    BY <2>1 DEF SentInv
  <2>5. Once(Open(s), up)
    BY <2>4 DEF In, Once
  <2>6. \A t \in Shells : /\ In(Open(t), up') <=> In(Open(t), up) \/ t = s
                          /\ Once(Open(t), up) => Once(Open(t), up')
    BY <2>1, <2>2, <2>3, <2>4, AppendIn
  <2> QED
    BY <2>1, <2>3, <2>5, <2>6 DEF SentInv
<1>9. CASE RelayOpens \/ RelayRefuses \/ RelayHearsDecline
  <2>1. /\ up # <<>> /\ up' = Tail(up) /\ up \in Seq(Upstream) /\ Head(up) = up[1]
        /\ UNCHANGED <<sentOn, link, conns>>
    BY <1>9, FirstMessage DEF RelayOpens, RelayRefuses, RelayHearsDecline
  <2>2. \A t \in Shells : /\ In(Open(t), up') => In(Open(t), up)
                          /\ Once(Open(t), up) => Once(Open(t), up')
                          /\ Once(Open(t), up) /\ Open(t) = up[1] => ~In(Open(t), up')
                          /\ Open(t)' = Open(t)
    BY <2>1, TailIn DEF Open
  <2>3. CASE RelayHearsDecline
    BY <2>1, <2>2, <2>3, SentLess DEF RelayHearsDecline, SentInv
  <2>4. CASE RelayOpens \/ RelayRefuses
    <3>1. PICK s \in Shells : s = up[1][2] /\ up[1] = Open(s)
      BY <2>1, <2>4, FirstMessage DEF RelayOpens, RelayRefuses
    <3>2. In(Open(s), up)
      BY <2>1, <3>1, TailIn
    <3>3. shell[s] = "running" /\ Once(Open(s), up)
      BY <3>2 DEF SentInv
    <3>4. CASE RelayOpens
      <4>1. opened' = opened \cup {s} /\ UNCHANGED shell
        BY <3>1, <3>4 DEF RelayOpens
      <4> QED
        BY <2>1, <2>2, <3>3, <4>1 DEF SentInv
    <3>5. CASE RelayRefuses
      <4>1. s \notin opened /\ UNCHANGED opened /\ shell' = [shell EXCEPT ![s] = "refused"]
        BY <3>1, <3>5 DEF RelayRefuses
      <4>2. \A t \in Shells : t # s => shell'[t] = shell[t]
        BY <4>1 DEF OpenInv, OpenTypeOK
      <4>3. ~In(Open(s), up')
        BY <2>2, <3>1, <3>3
      <4> QED
        BY <2>1, <2>2, <4>1, <4>2, <4>3 DEF SentInv, OpenInv, OpenTypeOK, Started
    <3> QED
      BY <2>4, <3>4, <3>5
  <2> QED
    BY <1>9, <2>3, <2>4
<1> QED
  BY <1>2, <1>3, <1>4, <1>5, <1>6, <1>7, <1>8, <1>9 DEF Next

-----------------------------------------------------------------------------
(* The steps of the handler, for the flight. *)
LEMMA FlightOfHandler ==
  ASSUME OpenInv, FlightInv, NEW c \in Calls, CallStep(c) \/ Abandon(c)
  PROVE  FlightInv'
<1> USE DEF wireVars, daemonVars
<1>1. CASE Join(c)
  <2>1. /\ call[c] = "admitted" /\ Goes(c, "waiting")
        /\ on' = [on EXCEPT ![c] = pending[keyOf[c]]]
        /\ UNCHANGED <<tableVars, record, down, inbox, up, shell, shellKey>>
    BY <1>1 DEF Join
  <2>2. keyOf[c] \in Keys /\ pending[keyOf[c]] # c /\ pending[keyOf[c]] \in Calls \cup {Nobody}
    BY <2>1 DEF OpenInv, OpenTypeOK, FlightInv
  <2>3. /\ on' \in [Calls -> Calls \cup {Nobody}]
        /\ \A d \in Calls : on'[d] = d => on[d] = d
    BY <2>1, <2>2 DEF OpenInv, OpenTypeOK
  <2> QED
    BY <2>1, <2>3, FlightOfCall DEF Stages
<1>2. ASSUME NEW what, Answers(c, what),
             UNCHANGED <<tableVars, record, down, inbox, up, shell, shellKey>>
      PROVE  FlightInv'
  <2>1. on' = [on EXCEPT ![c] = Nobody] /\ Goes(c, "done")
    BY <1>2 DEF Answers
  <2>2. /\ on' \in [Calls -> Calls \cup {Nobody}]
        /\ \A d \in Calls : on'[d] = d => on[d] = d
    BY <2>1, CallsAssumption DEF OpenInv, OpenTypeOK
  <2> QED
    BY <1>2, <2>1, <2>2, FlightOfCall DEF Stages
<1>3. ASSUME NEW to \in {"looked", "admitted", "opened"}, Goes(c, to), UNCHANGED on,
             to # "opened" => call[c] \in {"new", "looked"},
             UNCHANGED <<tableVars, record, down, inbox, up, shell, shellKey>>
      PROVE  FlightInv'
  <2>1. on' \in [Calls -> Calls \cup {Nobody}]
    BY <1>3 DEF OpenInv, OpenTypeOK
  <2> QED
    BY <1>3, <2>1, FlightOfCall DEF Stages
<1>4. CASE Lookup(c) \/ Admit(c) \/ TakeOpened(c)
  BY <1>2, <1>3, <1>4 DEF Lookup, Admit, TakeOpened
<1>5. CASE OverLimit(c) \/ GiveUp(c) \/ Abandon(c)
  BY <1>2, <1>5 DEF OverLimit, GiveUp, Abandon
<1>6. CASE TakeRefusal(c)
  BY <1>6, FlightOfRetire DEF TakeRefusal
<1>7. CASE Respond(c)
  BY <1>7, FlightOfRetire DEF Respond
<1> QED
  BY <1>1, <1>4, <1>5, <1>6, <1>7, FlightOfBegin, FlightOfDeliver, FlightOfStore DEF CallStep

LEMMA FlightKeeps ==
  ASSUME OpenInv, FlightInv, SentInv, [Next]_vars
  PROVE  FlightInv'
<1> USE DEF wireVars, daemonVars
<1>1. ASSUME UNCHANGED <<callVars, record>>, FailAll \/ UNCHANGED tableVars,
             down' \in {down, <<>>}, up' \in {up, <<>>}, UNCHANGED <<inbox, shell, shellKey>>
      PROVE  FlightInv'
  <2>1. \A k \in Keys : LiveShells(k)' \subseteq LiveShells(k)
    BY <1>1 DEF LiveShells
  <2>2. \A k \in Keys : (Idle(k) => Idle(k)') /\ (Single(k) => Single(k)')
    BY <1>1, <2>1, FlightLost
  <2> QED
    BY <1>1, <2>2, FlightOfWithdrawal
<1>2. CASE Connect \/ AssertCapability \/ Disconnect \/ UNCHANGED vars
  BY <1>1, <1>2 DEF Connect, AssertCapability, Disconnect, vars
<1>3. ASSUME NEW g \in 1..MaxConns, DetachFails(g) \/ DetachSlot(g) PROVE FlightInv'
  BY <1>1, <1>3 DEF DetachFails, DetachSlot
<1>4. ASSUME NEW k \in Keys, Sweep(k) PROVE FlightInv'
  <2>1. /\ Finish(k) /\ withdrawn' = withdrawn \cup {k}
        /\ UNCHANGED <<callVars, watch, record, down, up, inbox, shell, shellKey>>
    BY <1>4 DEF Sweep
  <2>2. \A j \in Keys : (Idle(j) => Idle(j)') /\ (Single(j) => Single(j)')
    BY <2>1, FlightSame
  <2> QED
    BY <2>1, <2>2, FlightOfWithdrawal
<1>5. CASE ReceiveRequest
  BY <1>5, FlightOfReceive, FlightOfWithdrawal DEF ReceiveRequest
<1>6. CASE HostDeclines
  BY <1>6, FlightOfDecline, FlightOfWithdrawal DEF HostDeclines
<1>7. CASE HostSpawns
  BY <1>7, FlightOfSpawn, FlightOfWithdrawal DEF HostSpawns
<1>8. ASSUME NEW s \in Shells, SendOpen(s) PROVE FlightInv'
  BY <1>8, FlightOfSend, FlightOfWithdrawal DEF SendOpen
<1>9. ASSUME NEW s \in Shells, NEW to \in {"running", "dead"}, ShellStarts(s, to)
      PROVE  FlightInv'
  <2>1. /\ shell[s] = "starting" /\ shell' = [shell EXCEPT ![s] = to]
        /\ UNCHANGED <<callVars, tableVars, record, down, up, inbox, shellKey>>
    BY <1>9 DEF ShellStarts
  <2>2. \A k \in Keys : LiveShells(k)' \subseteq LiveShells(k)
    BY <2>1 DEF LiveShells, OpenInv, OpenTypeOK
  <2>3. \A k \in Keys : (Idle(k) => Idle(k)') /\ (Single(k) => Single(k)')
    BY <2>1, <2>2, FlightLost
  <2> QED
    BY <2>1, <2>3, FlightOfWithdrawal
<1> QED
  BY <1>2, <1>3, <1>4, <1>5, <1>6, <1>7, <1>8, <1>9, FlightOfHandler, FlightOfHearing DEF Next

LEMMA FlightStarts == OpenInit => FlightInv /\ SentInv
<1> SUFFICES ASSUME OpenInit PROVE FlightInv /\ SentInv
  OBVIOUS
<1>1. \A k : Idle(k) /\ Single(k)
  BY EmptyIn DEF OpenInit, Idle, Single, LiveShells
<1>2. FlightInv
  BY <1>1, CallsAssumption DEF OpenInit, FlightInv
<1>3. SentInv
  BY EmptyIn DEF OpenInit, SentInv
<1> QED
  BY <1>2, <1>3

(* NeverNeither, always: from the open of a terminal for a key until its   *)
(* record is stored, the entry stays in the table, so that a retry finds   *)
(* one of the two.                                                         *)
THEOREM RetryFindsIt == OpenSpec => []NeverNeither
<1>1. OpenInv /\ FlightInv /\ SentInv => NeverNeither
  <2> SUFFICES ASSUME OpenInv, FlightInv, SentInv, NEW k \in Keys, k \notin withdrawn,
                      record[k] = None, pending[k] = Nobody, NEW s \in TerminalsFor(k)
               PROVE  FALSE
    BY DEF NeverNeither
  <2>1. Idle(k)
    BY DEF FlightInv, Pursued
  <2>2. s \in LiveShells(k)
    BY DEF TerminalsFor, LiveShells, SentInv, OpenInv, OpenTypeOK, Started
  <2> QED
    BY <2>1, <2>2 DEF Idle
<1>2. OpenInv /\ FlightInv /\ SentInv /\ [Next]_vars => (OpenInv /\ FlightInv /\ SentInv)'
  BY OpenKeeps, FlightKeeps, SentKeeps
<1> QED
  BY <1>1, <1>2, OpenStarts, FlightStarts, PTL DEF OpenSpec
=============================================================================
