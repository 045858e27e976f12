------------------------- MODULE LockVerifierProofs -------------------------
(***************************************************************************)
(* Theorems about the door lock, for every set of nonces, tokens, devices  *)
(* and key ids, every challenge lifetime and every clock.                  *)
(***************************************************************************)
EXTENDS LockVerifier, SequenceTheorems, TLAPS

-----------------------------------------------------------------------------
(* What the methods of the challenge store return, entry by entry. *)

(* issue keeps the store well typed, remembers the new nonce and drops     *)
(* from each dict what is past its age.                                    *)
LEMMA IssueEntries ==
  ASSUME NEW s \in ChallengeStore, NEW c \in Challenge, NEW now \in Nat
  PROVE  /\ Issue(s, c, now) \in ChallengeStore
         /\ \A x \in Challenge :
              /\ Issue(s, c, now).pending[x] =
                   IF x = c THEN now
                   ELSE IF now - s.pending[x] > ChallengeTTL THEN Absent
                   ELSE s.pending[x]
              /\ Issue(s, c, now).consumed[x] =
                   IF now - s.consumed[x] > 4 * ChallengeTTL THEN Absent
                   ELSE s.consumed[x]
BY ChallengeTTLAssumption
   DEF Issue, Gc, NoOlderThan, ChallengeStore, Stamp, Absent

(* consume moves one nonce from the pending dict to the consumed one. *)
LEMMA ConsumeEntries ==
  ASSUME NEW s \in ChallengeStore, NEW c \in Challenge, NEW now \in Nat
  PROVE  /\ Consume(s, c, now) \in ChallengeStore
         /\ \A x \in Challenge :
              /\ Consume(s, c, now).pending[x] = IF x = c THEN Absent ELSE s.pending[x]
              /\ Consume(s, c, now).consumed[x] = IF x = c THEN now ELSE s.consumed[x]
BY DEF Consume, ChallengeStore, Stamp, Absent

(* A challenge that check accepts is pending and not consumed. *)
LEMMA CheckOk ==
  ASSUME NEW s, NEW c, NEW now, Check(s, c, now) \notin {"replayed", "unknown"}
  PROVE  /\ s.consumed[c] = Absent
         /\ s.pending[c] # Absent
         /\ ~(now - s.pending[c] > ChallengeTTL)
BY DEF Check

(* finish_unlock answers with one of the documented decisions, and unlocks *)
(* only on a static pass, a live challenge and a valid device response.    *)
LEMMA VerdictCases ==
  ASSUME NEW token, NEW c, NEW response, NEW now
  PROVE  /\ UnlockVerdict(token, c, response, now) \in DenyReason \cup {"unlock"}
         /\ UnlockVerdict(token, c, response, now) = "unlock" =>
              /\ EvaluateStatic(token, PropertyPub, LockProperty, LockRoom, now, revoked) = "pass"
              /\ Check(challenges, c, now) \notin {"replayed", "unknown"}
              /\ VerifyDeviceResponse(token.device_pub, c, response)
BY DEF UnlockVerdict, EvaluateStatic, DenyReason

-----------------------------------------------------------------------------
(* The state of a lock is always well typed: the store holds only times,   *)
(* decisions are the documented ones and every recorded unlock is of a     *)
(* presented token (LockVerifier.__init__ and every method).               *)
THEOREM TypeCorrect == Spec => []TypeOK
<1>1. Init => TypeOK
  BY DEF Init, TypeOK, NewStore, ChallengeStore, Stamp, Absent
<1>2. TypeOK /\ [Next]_vars => TypeOK'
  <2> SUFFICES ASSUME TypeOK, [Next]_vars PROVE TypeOK'
    OBVIOUS
  <2> USE DEF TypeOK
  <2>1. CASE Tick
    BY <2>1 DEF Tick
  <2>2. ASSUME NEW list \in SUBSET KeyId, SyncRevocations(list) PROVE TypeOK'
    BY <2>2 DEF SyncRevocations
  <2>3. ASSUME NEW c \in Challenge, BeginUnlock(c) PROVE TypeOK'
    <3>1. challenges' \in ChallengeStore
      BY <2>3, IssueEntries DEF BeginUnlock
    <3>2. issued' \in [Challenge -> Stamp]
      BY <2>3 DEF BeginUnlock, Stamp
    <3> QED  BY <2>3, <3>1, <3>2 DEF BeginUnlock
  <2>4. ASSUME NEW d \in Device, NEW c \in Challenge, PhoneSigns(d, c) PROVE TypeOK'
    BY <2>4 DEF PhoneSigns, DeviceSign
  <2>5. ASSUME NEW token \in Token, NEW c \in Challenge, NEW response,
               NEW now \in {clock} \cup Override, Deny(token, c, response, now)
        PROVE  TypeOK'
    BY <2>5, VerdictCases DEF Deny
  <2>6. ASSUME NEW token \in Token, NEW c \in Challenge, NEW response,
               NEW now \in {clock} \cup Override, Unlock(token, c, response, now)
        PROVE  TypeOK'
    <3>1. now \in Nat
      BY LockAssumption
    <3>2. challenges' \in ChallengeStore
      BY <2>6, <3>1, ConsumeEntries DEF Unlock
    <3>3. Append(opened[c], [token |-> token, at |-> now]) \in Seq(Opening)
      BY <3>1, AppendProperties DEF Opening
    <3>4. opened' \in [Challenge -> Seq(Opening)]
      BY <2>6, <3>3 DEF Unlock
    <3> QED  BY <2>6, <3>2, <3>4 DEF Unlock
  <2>7. CASE UNCHANGED vars
    BY <2>7 DEF vars
  <2> QED  BY <2>1, <2>2, <2>3, <2>4, <2>5, <2>6, <2>7 DEF Next, FinishUnlock
<1> QED  BY <1>1, <1>2, PTL DEF Spec

(* What an unlock finds: the challenge was pending, so never used before. *)
LEMMA UnlockFindsPending ==
  ASSUME NEW token, NEW c, NEW response, NEW now, Unlock(token, c, response, now)
  PROVE  /\ challenges.pending[c] # Absent
         /\ ~(now - challenges.pending[c] > ChallengeTTL)
BY VerdictCases, CheckOk DEF Unlock

(* The history of every challenge, which with the types is inductive. *)
LEMMA HistoryInductive ==
  TypeOK /\ ChallengeHistory /\ [Next]_vars => ChallengeHistory'
<1> SUFFICES ASSUME TypeOK, ChallengeHistory, [Next]_vars, NEW x \in Challenge
             PROVE  HistoryOf(x)'
  BY DEF ChallengeHistory
<1>a. /\ clock \in Nat
      /\ issued[x] \in Stamp /\ opened[x] \in Seq(Opening)
      /\ challenges.pending[x] \in Stamp /\ challenges.consumed[x] \in Stamp
      /\ opened[x] # <<>> => opened[x][1].at \in Nat
  <2>1. /\ clock \in Nat
        /\ issued[x] \in Stamp /\ opened[x] \in Seq(Opening)
        /\ challenges.pending[x] \in Stamp /\ challenges.consumed[x] \in Stamp
    BY DEF TypeOK, ChallengeStore
  <2>2. opened[x] # <<>> => opened[x][1] \in Opening
    BY <2>1
  <2> QED  BY <2>1, <2>2 DEF Opening
<1>b. HistoryOf(x)
  BY DEF ChallengeHistory
<1>c. challenges \in ChallengeStore
  BY DEF TypeOK
<1> USE <1>a, <1>b, ChallengeTTLAssumption DEF HistoryOf, Stamp, Absent
<1>1. CASE Tick
  BY <1>1 DEF Tick
<1>2. ASSUME NEW list \in SUBSET KeyId, SyncRevocations(list) PROVE HistoryOf(x)'
  BY <1>2 DEF SyncRevocations
<1>3. ASSUME NEW c \in Challenge, BeginUnlock(c) PROVE HistoryOf(x)'
  <2>1. /\ challenges'.pending[x] = IF x = c THEN clock
                                    ELSE IF clock - challenges.pending[x] > ChallengeTTL
                                         THEN Absent ELSE challenges.pending[x]
        /\ challenges'.consumed[x] = IF clock - challenges.consumed[x] > 4 * ChallengeTTL
                                     THEN Absent ELSE challenges.consumed[x]
    <3> HIDE <1>a, <1>b DEF HistoryOf, Stamp, Absent
    <3>1. challenges' = Issue(challenges, c, clock)
      BY <1>3 DEF BeginUnlock
    <3> QED  BY <1>a, <1>c, <3>1, IssueEntries
  <2>2. /\ issued' = [issued EXCEPT ![c] = clock] /\ issued[c] = Absent
        /\ clock' = clock /\ opened' = opened
    BY <1>3 DEF BeginUnlock
  <2>3. issued'[x] = IF x = c THEN clock ELSE issued[x]
    BY <2>2 DEF TypeOK
  <2> QED  BY <2>1, <2>2, <2>3
<1>4. ASSUME NEW d \in Device, NEW c \in Challenge, PhoneSigns(d, c) PROVE HistoryOf(x)'
  BY <1>4 DEF PhoneSigns
<1>5. ASSUME NEW token \in Token, NEW c \in Challenge, NEW response,
             NEW now \in {clock} \cup Override, Deny(token, c, response, now)
      PROVE  HistoryOf(x)'
  BY <1>5 DEF Deny
<1>6. ASSUME NEW token \in Token, NEW c \in Challenge, NEW response,
             NEW now \in {clock} \cup Override, Unlock(token, c, response, now)
      PROVE  HistoryOf(x)'
  <2>1. now \in Nat
    BY LockAssumption
  <2>2. /\ challenges'.pending[x] = IF x = c THEN Absent ELSE challenges.pending[x]
        /\ challenges'.consumed[x] = IF x = c THEN now ELSE challenges.consumed[x]
    <3> HIDE <1>a, <1>b DEF HistoryOf, Stamp, Absent
    <3>1. challenges' = Consume(challenges, c, now)
      BY <1>6 DEF Unlock
    <3> QED  BY <1>c, <2>1, <3>1, ConsumeEntries
  <2>3. CASE x # c
    <3>1. opened'[x] = opened[x] /\ issued' = issued /\ clock' = clock
      BY <1>6, <2>3 DEF Unlock, TypeOK
    <3> QED  BY <2>2, <2>3, <3>1
  <2>4. CASE x = c
    <3>1. opened[x] = <<>> /\ issued[x] # Absent
      BY <1>6, <2>4, UnlockFindsPending
    <3>2. opened'[x] = <<[token |-> token, at |-> now]>>
      BY <1>6, <2>4, <3>1 DEF Unlock, TypeOK
    <3>3. opened'[x][1].at = now /\ Len(opened'[x]) = 1
      BY <3>2
    <3> QED  BY <1>6, <2>2, <2>4, <3>1, <3>3 DEF Unlock
  <2> QED  BY <2>3, <2>4
<1>7. CASE UNCHANGED vars
  BY <1>7 DEF vars
<1> QED  BY <1>1, <1>2, <1>3, <1>4, <1>5, <1>6, <1>7 DEF Next, FinishUnlock

(* Every challenge always has such a history (antireplay.py). *)
THEOREM HistoryHolds == Spec => []ChallengeHistory
<1>1. Init => ChallengeHistory
  <2> SUFFICES ASSUME Init, NEW c \in Challenge PROVE HistoryOf(c)
    BY DEF ChallengeHistory
  <2>1. /\ clock = 0 /\ issued[c] = -1 /\ opened[c] = <<>>
        /\ challenges.pending[c] = Absent
    BY DEF Init, NewStore, Absent
  <2> QED  BY <2>1 DEF HistoryOf
<1>2. Spec => []TypeOK
  BY TypeCorrect
<1> QED  BY <1>1, <1>2, HistoryInductive, PTL DEF Spec

(* No challenge ever opens the door twice, at any time it is presented and *)
(* whatever the collector has forgotten (finish_unlock).                   *)
THEOREM OpensOnce == Spec => []SingleUse
<1>1. ChallengeHistory => SingleUse
  BY DEF ChallengeHistory, HistoryOf, SingleUse
<1> QED  BY <1>1, HistoryHolds, PTL

(* A used challenge is answered "replayed" for four lifetimes (check and   *)
(* _gc).                                                                   *)
THEOREM ReplayReported == Spec => []ReplayDistinguished
<1>1. TypeOK /\ ChallengeHistory => ReplayDistinguished
  <2> SUFFICES ASSUME TypeOK, ChallengeHistory, NEW c \in Challenge,
                      opened[c] # <<>>, clock - opened[c][1].at <= 4 * ChallengeTTL
               PROVE  Check(challenges, c, clock) = "replayed"
    BY DEF ReplayDistinguished
  <2>0. opened[c] \in Seq(Opening) /\ clock \in Nat
    BY DEF TypeOK
  <2>1. opened[c][1].at \in Nat /\ clock \in Nat
    <3>1. opened[c][1] \in Opening
      BY <2>0
    <3> QED  BY <2>0, <3>1 DEF Opening
  <2>2. challenges.consumed[c] # Absent
    BY <2>1, ChallengeTTLAssumption DEF ChallengeHistory, HistoryOf, Absent
  <2> QED  BY <2>2 DEF Check
<1> QED  BY <1>1, TypeCorrect, HistoryHolds, PTL

(* A challenge leaves the pending dict only by opening the door or by      *)
(* outliving its lifetime (finish_unlock's denials do not consume).        *)
THEOREM RetriesLeft == Spec => RetryPossible
<1>1. TypeOK /\ ChallengeHistory /\ [Next]_vars => \A x \in Challenge : KeptForRetry(x)
  <2> SUFFICES ASSUME TypeOK, ChallengeHistory, [Next]_vars, NEW x \in Challenge
               PROVE  KeptForRetry(x)
    OBVIOUS
  <2>0. challenges \in ChallengeStore /\ clock \in Nat
    BY DEF TypeOK
  <2> USE DEF KeptForRetry
  <2>1. ASSUME UNCHANGED challenges PROVE KeptForRetry(x)
    BY <2>1
  <2>2. ASSUME NEW c \in Challenge, BeginUnlock(c) PROVE KeptForRetry(x)
    <3>1. challenges'.pending[x] = IF x = c THEN clock
                                   ELSE IF clock - challenges.pending[x] > ChallengeTTL
                                        THEN Absent ELSE challenges.pending[x]
      <4>1. challenges' = Issue(challenges, c, clock)
        BY <2>2 DEF BeginUnlock
      <4> QED  BY <2>0, <4>1, IssueEntries
    <3>2. clock # Absent
      BY <2>0 DEF Absent
    <3> QED  BY <3>1, <3>2
  <2>3. ASSUME NEW token \in Token, NEW c \in Challenge, NEW response,
               NEW now \in {clock} \cup Override, Unlock(token, c, response, now)
        PROVE  KeptForRetry(x)
    <3>1. now \in Nat
      BY <2>0, LockAssumption
    <3>2. challenges'.pending[x] = IF x = c THEN Absent ELSE challenges.pending[x]
      <4>1. challenges' = Consume(challenges, c, now)
        BY <2>3 DEF Unlock
      <4> QED  BY <2>0, <3>1, <4>1, ConsumeEntries
    <3>3. opened[c] = <<>>
      BY <2>3, UnlockFindsPending DEF ChallengeHistory, HistoryOf
    <3>4. opened'[c] = <<[token |-> token, at |-> now]>>
      BY <2>3, <3>3 DEF Unlock, TypeOK
    <3>5. opened'[c] # opened[c]
      BY <3>3, <3>4
    <3> QED  BY <3>2, <3>5
  <2>4. CASE UNCHANGED vars
    BY <2>1, <2>4 DEF vars
  <2> QED  BY <2>1, <2>2, <2>3, <2>4
           DEF Next, FinishUnlock, Tick, SyncRevocations, PhoneSigns, Deny
<1>2. TypeOK /\ ChallengeHistory /\ [Next]_vars => [\A c \in Challenge : KeptForRetry(c)]_vars
  BY <1>1
<1> QED  BY <1>2, TypeCorrect, HistoryHolds, PTL DEF Spec, RetryPossible

(* No pending challenge is more than one lifetime older than the newest    *)
(* one issued (issue collects before it remembers).                        *)
THEOREM PendingStaysRecent == Spec => []PendingIsRecent
<1>1. Init => PendingIsRecent
  BY DEF Init, PendingIsRecent, NewStore
<1>2. TypeOK /\ ChallengeHistory /\ PendingIsRecent /\ [Next]_vars => PendingIsRecent'
  <2> SUFFICES ASSUME TypeOK, ChallengeHistory, PendingIsRecent, [Next]_vars,
                      NEW x \in Challenge, NEW y \in Challenge,
                      challenges'.pending[x] # Absent, issued'[y] # Absent
               PROVE  issued'[y] - challenges'.pending[x] <= ChallengeTTL
    BY DEF PendingIsRecent
  <2>0. challenges \in ChallengeStore /\ clock \in Nat
    BY DEF TypeOK
  <2>a. /\ challenges.pending[x] \in Stamp /\ issued[y] \in Stamp
        /\ issued[y] <= clock
        /\ challenges.pending[x] # Absent /\ issued[y] # Absent
             => issued[y] - challenges.pending[x] <= ChallengeTTL
    BY DEF TypeOK, ChallengeStore, ChallengeHistory, HistoryOf, PendingIsRecent
  <2>1. CASE UNCHANGED <<challenges, issued>>
    BY <2>1, <2>a
  <2>2. ASSUME NEW c \in Challenge, BeginUnlock(c)
        PROVE  issued'[y] - challenges'.pending[x] <= ChallengeTTL
    <3>1. challenges'.pending[x] = IF x = c THEN clock
                                   ELSE IF clock - challenges.pending[x] > ChallengeTTL
                                        THEN Absent ELSE challenges.pending[x]
      <4>1. challenges' = Issue(challenges, c, clock)
        BY <2>2 DEF BeginUnlock
      <4> QED  BY <2>0, <4>1, IssueEntries
    <3>2. issued'[y] = IF y = c THEN clock ELSE issued[y]
      BY <2>2 DEF BeginUnlock, TypeOK
    <3> QED  BY <2>0, <2>a, <3>1, <3>2, ChallengeTTLAssumption DEF Stamp, Absent
  <2>3. ASSUME NEW token \in Token, NEW c \in Challenge, NEW response,
               NEW now \in {clock} \cup Override, Unlock(token, c, response, now)
        PROVE  issued'[y] - challenges'.pending[x] <= ChallengeTTL
    <3>1. now \in Nat
      BY <2>0, LockAssumption
    <3>2. challenges'.pending[x] = IF x = c THEN Absent ELSE challenges.pending[x]
      <4>1. challenges' = Consume(challenges, c, now)
        BY <2>3 DEF Unlock
      <4> QED  BY <2>0, <3>1, <4>1, ConsumeEntries
    <3>3. issued' = issued
      BY <2>3 DEF Unlock
    <3> QED  BY <2>a, <3>2, <3>3
  <2>4. CASE UNCHANGED vars
    BY <2>1, <2>4 DEF vars
  <2> QED  BY <2>1, <2>2, <2>3, <2>4
           DEF Next, FinishUnlock, Tick, SyncRevocations, PhoneSigns, Deny
<1> QED  BY <1>1, <1>2, TypeCorrect, HistoryHolds, PTL DEF Spec

(* A static pass is everything evaluate_static checks. *)
LEMMA StaticPass ==
  ASSUME NEW token, NEW now,
         EvaluateStatic(token, PropertyPub, LockProperty, LockRoom, now, revoked) = "pass"
  PROVE  /\ token.parses /\ token.complete
         /\ token.signed_by = PropertyPub
         /\ token.property_id = LockProperty /\ LockRoom \in token.room_ids
         /\ ~(now < token.valid_from) /\ ~(now > token.valid_until)
         /\ token.key_id \notin revoked
BY DEF EvaluateStatic

(* The door only ever opens for an authorised presentation (finish_unlock  *)
(* and evaluate_static), whoever signed what for which challenge.          *)
THEOREM OnlyAuthorisedOpenings == Spec => OpeningsAuthorised
<1>1. TypeOK /\ ChallengeHistory /\ [Next]_vars
        => \A x \in Challenge : LastOpeningAuthorised(x)
  <2> SUFFICES ASSUME TypeOK, ChallengeHistory, [Next]_vars, NEW x \in Challenge,
                      opened'[x] # opened[x]
               PROVE  Authorised(opened'[x][Len(opened'[x])], x)
    BY DEF LastOpeningAuthorised
  <2>1. PICK token \in Token, c \in Challenge, response \in signed \cup {NoResponse},
             now \in {clock} \cup Override : Unlock(token, c, response, now)
    BY DEF Next, vars, Tick, SyncRevocations, BeginUnlock, PhoneSigns, FinishUnlock, Deny
  <2>2. x = c
    BY <2>1 DEF Unlock, TypeOK
  <2>3. now \in Nat /\ challenges.pending[c] \in Stamp
    BY LockAssumption DEF TypeOK, ChallengeStore
  <2>4. /\ opened[c] = <<>> /\ issued[c] # Absent
        /\ now - issued[c] <= ChallengeTTL
    <3>1. /\ challenges.pending[c] # Absent
          /\ ~(now - challenges.pending[c] > ChallengeTTL)
      BY <2>1, UnlockFindsPending
    <3>2. challenges.pending[c] = issued[c] /\ opened[c] = <<>>
      BY <3>1 DEF ChallengeHistory, HistoryOf
    <3> QED  BY <2>3, <3>1, <3>2, ChallengeTTLAssumption DEF Stamp, Absent
  <2>5. opened'[x] = <<[token |-> token, at |-> now]>>
    BY <2>1, <2>2, <2>4 DEF Unlock, TypeOK
  <2>6. opened'[x][Len(opened'[x])] = [token |-> token, at |-> now]
    BY <2>5
  <2>7. /\ EvaluateStatic(token, PropertyPub, LockProperty, LockRoom, now, revoked) = "pass"
        /\ VerifyDeviceResponse(token.device_pub, c, response)
    BY <2>1, VerdictCases DEF Unlock
  <2>8. DeviceSign(token.device_pub, c) \in signed
    <3>1. response = DeviceSign(token.device_pub, c)
      BY <2>7 DEF VerifyDeviceResponse
    <3>2. response.over = c
      BY <3>1 DEF DeviceSign
    <3>3. response # NoResponse
      BY <3>2, LockAssumption DEF NoResponse
    <3> QED  BY <3>1, <3>3
  <2>9. /\ token.parses /\ token.complete
        /\ token.signed_by = PropertyPub
        /\ token.property_id = LockProperty /\ LockRoom \in token.room_ids
        /\ token.valid_from <= now /\ now <= token.valid_until
        /\ token.key_id \notin revoked
    BY <2>3, <2>7, StaticPass, LockAssumption
  <2> QED  BY <2>2, <2>4, <2>6, <2>8, <2>9 DEF Authorised
<1>2. TypeOK /\ ChallengeHistory /\ [Next]_vars
        => [\A c \in Challenge : LastOpeningAuthorised(c)]_vars
  BY <1>1
<1> QED  BY <1>2, TypeCorrect, HistoryHolds, PTL DEF Spec, OpeningsAuthorised

-----------------------------------------------------------------------------
(* The one-time passes that the lock's store and history stand for. *)
Sent == {c \in Challenge : issued[c] # Absent}
Live == {c \in Challenge : challenges.pending[c] # Absent}
Uses == [c \in Challenge |-> Len(opened[c])]

(* begin_unlock sends a pass, though it may drop others on the way. *)
LEMMA BeginSends ==
  ASSUME TypeOK, NEW c \in Challenge, BeginUnlock(c)
  PROVE  Pass!Send(c)
<1>0. challenges \in ChallengeStore /\ clock \in Nat /\ issued \in [Challenge -> Stamp]
  BY DEF TypeOK
<1>1. /\ challenges' = Issue(challenges, c, clock) /\ issued[c] = Absent
      /\ issued' = [issued EXCEPT ![c] = clock] /\ opened' = opened
  BY DEF BeginUnlock
<1>2. \A x \in Challenge :
        challenges'.pending[x] = IF x = c THEN clock
                                 ELSE IF clock - challenges.pending[x] > ChallengeTTL
                                      THEN Absent ELSE challenges.pending[x]
  BY <1>0, <1>1, IssueEntries
<1>3. clock # Absent
  BY <1>0 DEF Absent
<1>4. c \notin Sent /\ Sent' = Sent \cup {c} /\ Uses' = Uses
  BY <1>0, <1>1, <1>3 DEF Sent, Uses
<1>5. (Live' \ {c}) \in SUBSET Live /\ Live' = (Live' \ {c}) \cup {c}
  BY <1>2, <1>3 DEF Live
<1> QED  BY <1>4, <1>5 DEF Pass!Send, Sent, Live, Uses

(* An unlock uses the pass it was granted on. *)
LEMMA UnlockUses ==
  ASSUME TypeOK, NEW token \in Token, NEW c \in Challenge, NEW response,
         NEW now \in {clock} \cup Override, Unlock(token, c, response, now)
  PROVE  Pass!Use(c)
<1>0. challenges \in ChallengeStore /\ now \in Nat /\ opened \in [Challenge -> Seq(Opening)]
  BY LockAssumption DEF TypeOK
<1>1. /\ challenges' = Consume(challenges, c, now) /\ UNCHANGED issued
      /\ opened' = [opened EXCEPT ![c] = Append(@, [token |-> token, at |-> now])]
  BY DEF Unlock
<1>2. \A x \in Challenge :
        challenges'.pending[x] = IF x = c THEN Absent ELSE challenges.pending[x]
  <2>1. \A x \in Challenge : Consume(challenges, c, now).pending[x]
                               = IF x = c THEN Absent ELSE challenges.pending[x]
    BY <1>0, ConsumeEntries
  <2> QED  BY <1>1, <2>1
<1>3. c \in Live /\ Live' = Live \ {c} /\ Sent' = Sent
  BY <1>1, <1>2, UnlockFindsPending DEF Live, Sent
<1>4. Uses' = [Uses EXCEPT ![c] = @ + 1]
  <2>1. [token |-> token, at |-> now] \in Opening
    BY <1>0 DEF Opening
  <2>2. Len(Append(opened[c], [token |-> token, at |-> now])) = Len(opened[c]) + 1
    BY <1>0, <2>1
  <2> QED  BY <1>0, <1>1, <2>2 DEF Uses
<1> QED  BY <1>3, <1>4 DEF Pass!Use, Sent, Live, Uses

(* The lock's challenges are one-time passes, for every lifetime, clock,   *)
(* set of tokens and way to present them: what the store remembers of used *)
(* challenges, and when it forgets it, shows nowhere outside.              *)
THEOREM PassImplemented == Spec => ImplementsPass
<1>1. Init => Pass!Init
  BY DEF Init, Pass!Init, NewStore
<1>2. TypeOK /\ [Next]_vars => [Pass!Next]_<<Sent, Live, Uses>>
  <2> SUFFICES ASSUME TypeOK, [Next]_vars
               PROVE  Pass!Next \/ UNCHANGED <<Sent, Live, Uses>>
    OBVIOUS
  <2>1. ASSUME NEW c \in Challenge, BeginUnlock(c) PROVE Pass!Next
    BY <2>1, BeginSends DEF Pass!Next
  <2>2. ASSUME NEW token \in Token, NEW c \in Challenge, NEW response,
               NEW now \in {clock} \cup Override, Unlock(token, c, response, now)
        PROVE  Pass!Next
    BY <2>2, UnlockUses DEF Pass!Next
  <2>3. CASE UNCHANGED <<challenges, issued, opened>>
    BY <2>3 DEF Sent, Live, Uses
  <2> QED  BY <2>1, <2>2, <2>3
           DEF Next, FinishUnlock, Tick, SyncRevocations, PhoneSigns, Deny, vars
<1>3. TypeOK /\ [Next]_vars =>
        [Pass!Next]_<<{c \in Challenge : issued[c] # Absent},
                      {c \in Challenge : challenges.pending[c] # Absent},
                      [c \in Challenge |-> Len(opened[c])]>>
  BY <1>2 DEF Sent, Live, Uses
<1> QED  BY <1>1, <1>3, TypeCorrect, PTL DEF Spec, ImplementsPass, Pass!Spec
=============================================================================
