---------------------------- MODULE LockVerifier ----------------------------
(***************************************************************************)
(* One offline door lock (staykey/lock.py) serving one call at a time, as  *)
(* the device inside a door does: it holds the property's public key, a    *)
(* revocation snapshot that syncs replace, and a challenge store, and      *)
(* talks to phones that sign challenges with their device keys.            *)
(*                                                                         *)
(* begin_unlock runs at the lock's clock.  finish_unlock takes its time as *)
(* an argument, and POST /lock/{id}/unlock lets the caller override it, so *)
(* it runs at the clock or at a member of Override.                        *)
(***************************************************************************)
EXTENDS AntiReplay, Credential, Sequences

CONSTANTS KeyId,         \* the key ids a revocation list may hold
          Device,
          Token,         \* the tokens that are ever presented
          PropertyPub,   \* the provisioned property key
          LockProperty, LockRoom,
          Override,      \* values of the request's optional now
          MaxTime        \* bound of the clock

(* What a response that no device produced is a signature over. *)
NoNonce == "nothing"

ASSUME LockAssumption == /\ Override \subseteq Nat
                         /\ MaxTime \in Nat
                         /\ NoNonce \notin Challenge
                         /\ \A token \in Token : /\ token.valid_from \in Int
                                                 /\ token.valid_until \in Int

VARIABLES clock,       \* the lock's real-time clock
          revoked,     \* self._revoked
          challenges,  \* self._challenges
          decision,    \* the last Decision: "unlock" or its DenyReason
          signed,      \* responses phones have produced
          issued,      \* history: when each nonce was issued
          opened       \* history: the unlocks each challenge has granted

vars == <<clock, revoked, challenges, decision, signed, issued, opened>>

DenyReason == {"malformed", "forged_signature", "wrong_property", "wrong_room",
               "not_yet_valid", "expired", "revoked", "replayed",
               "unknown_challenge", "bad_response"}

Opening == [token: Token, at: Nat]

TypeOK == /\ clock \in Nat
          /\ revoked \subseteq KeyId
          /\ challenges \in ChallengeStore
          /\ decision \in DenyReason \cup {"none", "unlock"}
          /\ signed \subseteq [signer: Device, over: Challenge]
          /\ issued \in [Challenge -> Stamp]
          /\ opened \in [Challenge -> Seq(Opening)]

(* __init__, provisioned with any revocation list. *)
Init == /\ clock = 0
        /\ revoked \in SUBSET KeyId
        /\ challenges = NewStore
        /\ decision = "none"
        /\ signed = {}
        /\ issued = [c \in Challenge |-> Absent]
        /\ opened = [c \in Challenge |-> <<>>]

Tick == /\ clock < MaxTime
        /\ clock' = clock + 1
        /\ UNCHANGED <<revoked, challenges, decision, signed, issued, opened>>

(* sync_revocations: the snapshot is replaced, not extended. *)
SyncRevocations(list) ==
  /\ revoked' = list
  /\ UNCHANGED <<clock, challenges, decision, signed, issued, opened>>

(* begin_unlock: os.urandom never returns a nonce twice. *)
BeginUnlock(c) ==
  /\ issued[c] = Absent
  /\ challenges' = Issue(challenges, c, clock)
  /\ issued' = [issued EXCEPT ![c] = clock]
  /\ UNCHANGED <<clock, revoked, decision, signed, opened>>

(* A phone answers whatever challenge it is shown; nobody guesses a nonce. *)
PhoneSigns(d, c) ==
  /\ issued[c] # Absent
  /\ signed' = signed \cup {DeviceSign(d, c)}
  /\ UNCHANGED <<clock, revoked, challenges, decision, issued, opened>>

(* Mutated form of UnlockVerdict: possession of the device key not proved. *)
VerdictWithoutDevice(token, c, response, now) ==
  LET static == EvaluateStatic(token, PropertyPub, LockProperty, LockRoom, now, revoked)
      status == Check(challenges, c, now)
  IN  IF static # "pass" THEN static
      ELSE IF status = "replayed" THEN "replayed"
      ELSE IF status = "unknown" THEN "unknown_challenge"
      ELSE "unlock"

(* Mutated form of UnlockVerdict: the status of the challenge, which is no *)
(* DenyReason, is the answer.                                              *)
VerdictRawStatus(token, c, response, now) ==
  LET static == EvaluateStatic(token, PropertyPub, LockProperty, LockRoom, now, revoked)
      status == Check(challenges, c, now)
  IN  IF static # "pass" THEN static
      ELSE IF status # "ok" THEN status
      ELSE IF ~VerifyDeviceResponse(token.device_pub, c, response) THEN "bad_response"
      ELSE "unlock"

(* The decision of finish_unlock, its four stages in order. *)
UnlockVerdict(token, c, response, now) ==
  LET static == EvaluateStatic(token, PropertyPub, LockProperty, LockRoom, now, revoked)
      status == Check(challenges, c, now)
  IN  IF static # "pass" THEN static
      ELSE IF status = "replayed" THEN "replayed"
      ELSE IF status = "unknown" THEN "unknown_challenge"
      ELSE IF ~VerifyDeviceResponse(token.device_pub, c, response) THEN "bad_response"
      ELSE "unlock"

(* Mutated form of Deny: a failed response uses the challenge up. *)
DenyConsuming(token, c, response, now) ==
  /\ UnlockVerdict(token, c, response, now) # "unlock"
  /\ decision' = UnlockVerdict(token, c, response, now)
  /\ challenges' = IF decision' = "bad_response" THEN Consume(challenges, c, now)
                                                 ELSE challenges
  /\ UNCHANGED <<clock, revoked, signed, issued, opened>>

(* finish_unlock, every denying return: the challenge is left alone. *)
Deny(token, c, response, now) ==
  /\ UnlockVerdict(token, c, response, now) # "unlock"
  /\ decision' = UnlockVerdict(token, c, response, now)
  /\ UNCHANGED <<clock, revoked, challenges, signed, issued, opened>>

(* Mutated form of Unlock: the success path forgets to consume. *)
UnlockWithoutConsume(token, c, response, now) ==
  /\ UnlockVerdict(token, c, response, now) = "unlock"
  /\ decision' = "unlock"
  /\ opened' = [opened EXCEPT ![c] = Append(@, [token |-> token, at |-> now])]
  /\ UNCHANGED <<clock, revoked, challenges, signed, issued>>

(* finish_unlock, the success path: the challenge is consumed. *)
Unlock(token, c, response, now) ==
  /\ UnlockVerdict(token, c, response, now) = "unlock"
  /\ decision' = "unlock"
  /\ challenges' = Consume(challenges, c, now)
  /\ opened' = [opened EXCEPT ![c] = Append(@, [token |-> token, at |-> now])]
  /\ UNCHANGED <<clock, revoked, signed, issued>>

(* A response presented to the lock: one a phone made, or noise. *)
NoResponse == [signer |-> "nobody", over |-> NoNonce]

FinishUnlock ==
  \E token \in Token, c \in Challenge, response \in signed \cup {NoResponse},
     now \in {clock} \cup Override :
       Deny(token, c, response, now) \/ Unlock(token, c, response, now)

Next == \/ Tick
        \/ \E list \in SUBSET KeyId : SyncRevocations(list)
        \/ \E c \in Challenge : BeginUnlock(c)
        \/ \E d \in Device, c \in Challenge : PhoneSigns(d, c)
        \/ FinishUnlock

Spec == Init /\ [][Next]_vars

-----------------------------------------------------------------------------
HistoryOf(c) ==
  /\ issued[c] <= clock
  /\ challenges.pending[c] # Absent =>
       challenges.pending[c] = issued[c] /\ opened[c] = <<>>
  /\ Len(opened[c]) <= 1
  /\ opened[c] # <<>> =>
       /\ issued[c] # Absent
       /\ \/ challenges.consumed[c] = opened[c][1].at
          \/ /\ challenges.consumed[c] = Absent
             /\ clock - opened[c][1].at > 4 * ChallengeTTL

(* The life of a challenge, told by the store and by what happened: it is  *)
(* pending only between its issue and the unlock it grants, and an unlock  *)
(* is remembered as consumed until the collector may forget it (issue,     *)
(* consume and _gc of antireplay.py seen together).                        *)
ChallengeHistory == \A c \in Challenge : HistoryOf(c)

(* A challenge opens the door at most once, however often and however late *)
(* it is presented again, also after the store has forgotten that it was   *)
(* consumed ("usable exactly once", antireplay.py).                        *)
SingleUse == \A c \in Challenge : Len(opened[c]) <= 1

(* A challenge that opened the door is reported as replayed, not as        *)
(* unknown, for four lifetimes after that (antireplay.py: a replay "is     *)
(* distinguishable"), whatever the collector has dropped in between.       *)
ReplayDistinguished ==
  \A c \in Challenge :
    opened[c] # <<>> /\ clock - opened[c][1].at <= 4 * ChallengeTTL
      => Check(challenges, c, clock) = "replayed"

(* The store does not grow with the past: no pending challenge is more     *)
(* than one lifetime older than the newest challenge issued.               *)
PendingIsRecent ==
  \A c, d \in Challenge :
    challenges.pending[c] # Absent /\ issued[d] # Absent
      => issued[d] - challenges.pending[c] <= ChallengeTTL

KeptForRetry(c) ==
  challenges.pending[c] # Absent /\ challenges'.pending[c] = Absent
    => \/ opened'[c] # opened[c]
       \/ clock - challenges.pending[c] > ChallengeTTL

(* Only opening the door or outliving its lifetime takes a challenge out   *)
(* of the pending dict: a wrong answer, a wrong key or a sync leaves it to *)
(* the rightful phone ("a legit device may retry until TTL", lock.py).     *)
RetryPossible == [][\A c \in Challenge : KeptForRetry(c)]_vars

(* What one unlock needs, stated without the order of the checks. *)
Authorised(o, c) ==
  /\ o.token.parses /\ o.token.complete
  /\ o.token.signed_by = PropertyPub
  /\ o.token.property_id = LockProperty /\ LockRoom \in o.token.room_ids
  /\ o.token.valid_from <= o.at /\ o.at <= o.token.valid_until
  /\ o.token.key_id \notin revoked
  /\ issued[c] # Absent /\ o.at - issued[c] <= ChallengeTTL
  /\ DeviceSign(o.token.device_pub, c) \in signed

LastOpeningAuthorised(c) ==
  opened'[c] # opened[c] => Authorised(opened'[c][Len(opened'[c])], c)

(* Every unlock is of a token the property signed for this door and time,  *)
(* whose key the snapshot does not revoke, on a live challenge of this     *)
(* lock that the key's own device has signed (README, steps 1 to 6).       *)
OpeningsAuthorised == [][\A c \in Challenge : LastOpeningAuthorised(c)]_vars

Pass == INSTANCE OneTimePass
  WITH sent <- {c \in Challenge : issued[c] # Absent},
       live <- {c \in Challenge : challenges.pending[c] # Absent},
       uses <- [c \in Challenge |-> Len(opened[c])]

(* To phones the lock's challenges are one-time passes: whatever is        *)
(* presented, at whatever time, a challenge that has been used, or that    *)
(* the collector has dropped, never becomes good again (issue, consume and *)
(* _gc of antireplay.py under begin_unlock and finish_unlock).             *)
ImplementsPass == Pass!Spec
=============================================================================
