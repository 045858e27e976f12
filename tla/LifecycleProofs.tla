-------------------------- MODULE LifecycleProofs --------------------------
(***************************************************************************)
(* What the lifecycle handlers keep up however many of them run at once,   *)
(* in whichever order their statements come and wherever they die: the     *)
(* tables stay well typed, no revoked key is active, no key outlasts its   *)
(* stay.  The argument follows the keys a handler has selected: they are   *)
(* keys of its stay, so that its UPDATE catches all of them, and fresh     *)
(* keys are not among them.                                                *)
(***************************************************************************)
EXTENDS Lifecycle, TLAPS

(* A thread at work has a request; one about to add a key has read the     *)
(* stay's room and has seen that the key's window is not empty.            *)
AtWork(t) ==
  /\ pc[t] # "idle" => job[t] \in Job
  /\ pc[t] = "add" =>
       /\ job[t].room \in RoomId
       /\ EffectiveWindow(job[t].stay, job[t].now).valid_from
            < EffectiveWindow(job[t].stay, job[t].now).valid_until

(* The keys a thread has selected have rows, of its own stay, and are      *)
(* inactive by the time it revokes them.                                   *)
Selection(t) ==
  \A k \in job[t].keys :
    /\ pc[t] \in {"deactivate", "revoke"}
    /\ issued[k] # NoKey /\ issued[k].stay = job[t].stay
    /\ pc[t] = "revoke" => k \notin active

RowsExist == \A k \in active \cup revoked : issued[k] # NoKey

IInv == /\ TypeOK
        /\ RowsExist
        /\ RevokedNotActive
        /\ KeysWithinStay
        /\ \A t \in Thread : AtWork(t) /\ Selection(t)

-----------------------------------------------------------------------------
(* A key's window lies within the stay and within the TTL. *)
LEMMA WindowFacts ==
  ASSUME NEW s \in StayId, NEW now \in Nat
  PROVE  LET w == EffectiveWindow(s, now)
         IN  /\ w.valid_from = Window[s].check_in /\ w.valid_from \in Nat
             /\ w.valid_until \in Nat
             /\ w.valid_until <= Window[s].check_out
             /\ w.valid_until <= now + KeyTTL
<1>1. Window[s].check_in \in Nat /\ Window[s].check_out \in Nat /\ KeyTTL \in Nat
  BY LifecycleAssumption
<1> QED  BY <1>1 DEF EffectiveWindow, Min

(* The row AddKey inserts. *)
NewKey(t) ==
  [stay |-> job[t].stay, room |-> job[t].room, issued_at |-> job[t].now,
   valid_from |-> EffectiveWindow(job[t].stay, job[t].now).valid_from,
   valid_until |-> EffectiveWindow(job[t].stay, job[t].now).valid_until]

LEMMA NewKeyFacts ==
  ASSUME IInv, NEW t \in Thread, NEW k \in KeyId, AddKey(t, k)
  PROVE  /\ NewKey(t) \in KeyRow /\ issued[k] = NoKey
         /\ issued' = [issued EXCEPT ![k] = NewKey(t)]
         /\ NewKey(t).valid_from = Window[NewKey(t).stay].check_in
         /\ NewKey(t).valid_from < NewKey(t).valid_until
         /\ NewKey(t).valid_until <= Window[NewKey(t).stay].check_out
         /\ NewKey(t).valid_until <= NewKey(t).issued_at + KeyTTL
<1>1. /\ job[t] \in Job /\ job[t].room \in RoomId
      /\ EffectiveWindow(job[t].stay, job[t].now).valid_from
           < EffectiveWindow(job[t].stay, job[t].now).valid_until
  BY DEF IInv, AtWork, AddKey
<1>2. job[t].stay \in StayId /\ job[t].now \in Nat
  BY <1>1 DEF Job
<1>3. /\ EffectiveWindow(job[t].stay, job[t].now).valid_from = Window[job[t].stay].check_in
      /\ EffectiveWindow(job[t].stay, job[t].now).valid_from \in Nat
      /\ EffectiveWindow(job[t].stay, job[t].now).valid_until \in Nat
      /\ EffectiveWindow(job[t].stay, job[t].now).valid_until <= Window[job[t].stay].check_out
      /\ EffectiveWindow(job[t].stay, job[t].now).valid_until <= job[t].now + KeyTTL
  BY <1>2, WindowFacts
<1>4. issued[k] = NoKey /\ issued' = [issued EXCEPT ![k] = NewKey(t)]
  BY DEF AddKey, NewKey
<1> QED  BY <1>1, <1>2, <1>3, <1>4 DEF NewKey, KeyRow

LEMMA InitIInv == Init => IInv
<1> SUFFICES ASSUME Init PROVE IInv
  OBVIOUS
<1>1. TypeOK
  BY LifecycleAssumption DEF Init, TypeOK, MaybeRoom, NoJob
<1>2. RowsExist /\ RevokedNotActive /\ KeysWithinStay
  BY DEF Init, RowsExist, RevokedNotActive, KeysWithinStay
<1>3. ASSUME NEW t \in Thread PROVE AtWork(t) /\ Selection(t)
  BY <1>3 DEF Init, AtWork, Selection, NoJob
<1> QED  BY <1>1, <1>2, <1>3 DEF IInv

(* Types are kept by every step. *)
LEMMA TypeInductive == IInv /\ [Next]_vars => TypeOK'
<1> SUFFICES ASSUME IInv, [Next]_vars PROVE TypeOK'
  OBVIOUS
<1>0. TypeOK
  BY DEF IInv
<1>1. CASE Tick
  BY <1>0, <1>1 DEF TypeOK, Tick
<1>2. ASSUME NEW t \in Thread, NEW s \in StayId, Request(t, s) PROVE TypeOK'
  <2>1. ASSUME NEW op \in {"checkin", "refresh", "checkout", "change"}, NEW now \in Nat,
               NEW at \in {"issue", "supersede", "select"}, Start(t, op, s, now, at),
               UNCHANGED <<clock, stay_room, assigned, issued, active, revoked, lapsing>>,
               status' \in [StayId -> {"reserved", "checked_in", "checked_out"}]
        PROVE  TypeOK'
    <3>1. [op |-> op, stay |-> s, now |-> now, keys |-> {}, room |-> NoRoom] \in Job
      BY DEF Job, MaybeRoom
    <3> QED  BY <1>0, <2>1, <3>1 DEF TypeOK, Start
  <2>2. clock \in Nat /\ 0 \in Nat /\ \A now \in {clock} \cup Override : now \in Nat
    BY <1>0, LifecycleAssumption DEF TypeOK
  <2>3. CASE Checkin(t, s)
    <3>1. status' \in [StayId -> {"reserved", "checked_in", "checked_out"}]
      BY <1>0, <2>3 DEF Checkin, TypeOK
    <3> QED  BY <2>1, <2>2, <2>3, <3>1 DEF Checkin
  <2>4. CASE Refresh(t, s)
    BY <1>0, <2>1, <2>2, <2>4 DEF Refresh, TypeOK
  <2>5. CASE Checkout(t, s)
    BY <1>0, <2>1, <2>2, <2>5 DEF Checkout, TypeOK
  <2>6. CASE \E now \in {clock} \cup Override : ChangeRoom(t, s, now)
    BY <1>0, <2>1, <2>2, <2>6 DEF ChangeRoom, TypeOK
  <2> QED  BY <1>2, <2>3, <2>4, <2>5, <2>6 DEF Request
<1>3. ASSUME NEW t \in Thread, Step(t) \/ Abort(t) PROVE TypeOK'
  <2>1. pc[t] # "idle" => job[t] \in Job /\ job[t].stay \in StayId
    BY DEF IInv, AtWork, Job
  <2>2. CASE Supersede(t)
    BY <1>0, <2>2 DEF TypeOK, Supersede, ActiveKeysOf, Goto
  <2>3. CASE SelectKeys(t)
    <3>1. [job[t] EXCEPT !.keys = ActiveKeysOf(job[t].stay)] \in Job
      BY <1>0, <2>1, <2>3 DEF SelectKeys, Job, ActiveKeysOf, TypeOK
    <3> QED  BY <1>0, <2>3, <3>1 DEF TypeOK, SelectKeys
  <2>4. CASE DeactivateKeys(t) \/ AllRevoked(t) \/ FreeRoom(t)
    BY <1>0, <2>1, <2>4 DEF TypeOK, DeactivateKeys, AllRevoked, FreeRoom, Goto, MaybeRoom
  <2>5. ASSUME NEW k \in KeyId, RevokeKey(t, k) PROVE TypeOK'
    <3>1. [job[t] EXCEPT !.keys = @ \ {k}] \in Job
      BY <2>1, <2>5 DEF RevokeKey, Job
    <3> QED  BY <1>0, <2>5, <3>1 DEF TypeOK, RevokeKey
  <2>6. CASE Leave(t) \/ MoveFails(t) \/ Abort(t)
    BY <1>0, <2>6 DEF TypeOK, Leave, MoveFails, Abort, Done
  <2>7. ASSUME NEW room \in RoomId, Move(t, room) PROVE TypeOK'
    BY <1>0, <2>7 DEF TypeOK, Move, Goto, MaybeRoom
  <2>8. CASE Issue(t)
    <3>1. stay_room[job[t].stay] \in MaybeRoom
      BY <1>0, <2>1, <2>8 DEF Issue, TypeOK, MaybeRoom
    <3>2. [job[t] EXCEPT !.room = stay_room[job[t].stay]] \in Job
      BY <2>1, <2>8, <3>1 DEF Issue, Job
    <3> QED  BY <1>0, <2>8, <3>2 DEF TypeOK, Issue
  <2>9. ASSUME NEW k \in KeyId, AddKey(t, k) PROVE TypeOK'
    <3>1. issued' \in [KeyId -> KeyRow \cup {NoKey}]
      BY <1>0, <2>9, NewKeyFacts DEF TypeOK
    <3> QED  BY <1>0, <2>9, <3>1 DEF TypeOK, AddKey, Done
  <2> QED  BY <1>3, <2>2, <2>3, <2>4, <2>5, <2>6, <2>7, <2>8, <2>9 DEF Step
<1>4. CASE UNCHANGED vars
  BY <1>0, <1>4 DEF TypeOK, vars
<1> QED  BY <1>1, <1>2, <1>3, <1>4 DEF Next

(* Rows are never taken away or changed, so a thread's selection stays one *)
(* of its own stay's keys.                                                 *)
LEMMA RowsStay ==
  ASSUME IInv, [Next]_vars, NEW k \in KeyId, issued[k] # NoKey
  PROVE  issued'[k] = issued[k]
<1>1. ASSUME NEW t \in Thread, NEW j \in KeyId, AddKey(t, j) PROVE issued'[k] = issued[k]
  BY <1>1, NewKeyFacts DEF IInv, TypeOK
<1>2. CASE UNCHANGED issued
  BY <1>2
<1> QED  BY <1>1, <1>2
         DEF Next, Step, Request, Tick, Checkin, Refresh, Checkout, ChangeRoom, Supersede,
             SelectKeys, DeactivateKeys, RevokeKey, AllRevoked, FreeRoom, Leave, Move,
             MoveFails, Issue, Abort, vars

(* Active and revoked keys have rows: only selected keys are revoked.      *)
LEMMA RowsInductive == IInv /\ [Next]_vars => RowsExist'
<1> SUFFICES ASSUME IInv, [Next]_vars, NEW k \in active' \cup revoked'
             PROVE  issued'[k] # NoKey
  BY DEF RowsExist
<1>1. k \in KeyId
  BY TypeInductive DEF TypeOK
<1>2. CASE issued[k] # NoKey
  BY <1>1, <1>2, RowsStay
<1>3. CASE issued[k] = NoKey
  <2>1. k \notin active /\ k \notin revoked /\ \A t \in Thread : k \notin job[t].keys
    BY <1>3 DEF IInv, RowsExist, Selection
  <2>2. PICK t \in Thread : AddKey(t, k)
    BY <2>1
       DEF Next, Step, Request, Tick, Checkin, Refresh, Checkout, ChangeRoom, Supersede,
           SelectKeys, DeactivateKeys, RevokeKey, AllRevoked, FreeRoom, Leave, Move,
           MoveFails, Issue, Abort, AddKey, vars
  <2>3. issued'[k] = NewKey(t) /\ NewKey(t) \in KeyRow
    BY <1>1, <2>2, NewKeyFacts DEF IInv, TypeOK
  <2> QED  BY <2>3, LifecycleAssumption
<1> QED  BY <1>2, <1>3

(* Keys lie within their stays: rows do not change, and new ones do.       *)
LEMMA WithinInductive == IInv /\ [Next]_vars => KeysWithinStay'
<1> SUFFICES ASSUME IInv, [Next]_vars PROVE KeysWithinStay'
  OBVIOUS
<1>1. ASSUME NEW t \in Thread, NEW j \in KeyId, AddKey(t, j) PROVE KeysWithinStay'
  BY <1>1, NewKeyFacts DEF IInv, TypeOK, KeysWithinStay
<1>2. CASE UNCHANGED issued
  BY <1>2 DEF IInv, KeysWithinStay
<1> QED  BY <1>1, <1>2
         DEF Next, Step, Request, Tick, Checkin, Refresh, Checkout, ChangeRoom, Supersede,
             SelectKeys, DeactivateKeys, RevokeKey, AllRevoked, FreeRoom, Leave, Move,
             MoveFails, Issue, Abort, vars

(* No step makes an active key of a revoked one, or revokes an active key: *)
(* the keys being revoked were deactivated, and a fresh key has no row.    *)
LEMMA InactiveInductive == IInv /\ [Next]_vars => RevokedNotActive'
<1> SUFFICES ASSUME IInv, [Next]_vars PROVE RevokedNotActive'
  OBVIOUS
<1>1. ASSUME NEW t \in Thread, NEW k \in KeyId, AddKey(t, k) PROVE RevokedNotActive'
  <2>1. k \notin revoked
    BY <1>1 DEF AddKey, IInv, RowsExist
  <2> QED  BY <1>1, <2>1 DEF AddKey, IInv, RevokedNotActive
<1>2. ASSUME NEW t \in Thread, NEW k \in KeyId, RevokeKey(t, k) PROVE RevokedNotActive'
  BY <1>2 DEF RevokeKey, IInv, RevokedNotActive, Selection
<1>3. CASE revoked' = revoked /\ active' \subseteq active
  BY <1>3 DEF IInv, RevokedNotActive
<1> QED  BY <1>1, <1>2, <1>3
         DEF Next, Step, Request, Tick, Checkin, Refresh, Checkout, ChangeRoom, Supersede,
             SelectKeys, DeactivateKeys, AllRevoked, FreeRoom, Leave, Move,
             MoveFails, Issue, Abort, vars

-----------------------------------------------------------------------------
(* What a thread knows is disturbed by none of the others. *)
LEMMA OthersKeep ==
  ASSUME IInv, [Next]_vars, NEW t \in Thread, pc'[t] = pc[t], job'[t] = job[t]
  PROVE  AtWork(t)' /\ Selection(t)'
<1>1. AtWork(t)'
  BY DEF IInv, AtWork, EffectiveWindow
<1>2. ASSUME NEW k \in job[t].keys, k \notin active PROVE k \notin active'
  <2>1. issued[k] # NoKey
    BY <1>2 DEF IInv, Selection
  <2> QED  BY <1>2, <2>1
           DEF Next, Step, Request, Tick, Checkin, Refresh, Checkout, ChangeRoom, Supersede,
               SelectKeys, DeactivateKeys, RevokeKey, AllRevoked, FreeRoom, Leave, Move,
               MoveFails, Issue, AddKey, Abort, vars
<1>3. ASSUME NEW k \in job[t].keys PROVE issued'[k] = issued[k]
  <2>1. pc[t] # "idle" /\ issued[k] # NoKey
    BY <1>3 DEF IInv, Selection
  <2>2. k \in KeyId
    BY <1>3, <2>1 DEF IInv, AtWork, Job
  <2> QED  BY <2>1, <2>2, RowsStay
<1>4. Selection(t)
  BY DEF IInv
<1> QED  BY <1>1, <1>2, <1>3, <1>4 DEF Selection

(* A thread's own steps keep what it knows. *)
LEMMA OwnStepKeeps ==
  ASSUME IInv, [Next]_vars, NEW t \in Thread, Step(t) \/ Abort(t)
  PROVE  AtWork(t)' /\ Selection(t)'
<1>0. /\ TypeOK /\ AtWork(t) /\ Selection(t) /\ pc[t] # "idle"
      /\ job[t] \in Job
  BY DEF IInv, AtWork, Step, Abort, Supersede, SelectKeys, DeactivateKeys, RevokeKey,
         AllRevoked, FreeRoom, Leave, Move, MoveFails, Issue, AddKey
<1>1. ASSUME NEW at \in {"issue", "free", "leave", "move"}, Goto(t, at), job[t].keys = {}
      PROVE  AtWork(t)' /\ Selection(t)'
  BY <1>0, <1>1 DEF Goto, AtWork, Selection, TypeOK
<1>2. ASSUME Done(t) PROVE AtWork(t)' /\ Selection(t)'
  BY <1>0, <1>2 DEF Done, AtWork, Selection, TypeOK, NoJob
<1>3. pc[t] \notin {"deactivate", "revoke"} => job[t].keys = {}
  BY <1>0 DEF Selection, Job
<1>4. CASE Supersede(t) \/ AllRevoked(t) \/ FreeRoom(t) \/ \E room \in RoomId : Move(t, room)
  BY <1>1, <1>3, <1>4 DEF Supersede, AllRevoked, FreeRoom, Move
<1>5. CASE Leave(t) \/ MoveFails(t) \/ Abort(t) \/ \E k \in KeyId : AddKey(t, k)
  BY <1>2, <1>5 DEF Leave, MoveFails, Abort, AddKey
<1>6. CASE SelectKeys(t)
  <2>1. /\ pc'[t] = "deactivate"
        /\ job'[t] = [job[t] EXCEPT !.keys = ActiveKeysOf(job[t].stay)]
        /\ UNCHANGED <<issued, active>>
    BY <1>0, <1>6 DEF SelectKeys, TypeOK
  <2>2. job'[t].keys = ActiveKeysOf(job[t].stay) /\ job'[t].stay = job[t].stay
        /\ job'[t] \in Job
    BY <1>0, <2>1 DEF Job, ActiveKeysOf, TypeOK
  <2> QED  BY <2>1, <2>2 DEF AtWork, Selection, ActiveKeysOf, KeysOf
<1>7. CASE DeactivateKeys(t)
  <2>1. /\ pc'[t] = "revoke" /\ UNCHANGED <<job, issued>>
        /\ active' = active \ ActiveKeysOf(job[t].stay)
    BY <1>0, <1>7 DEF DeactivateKeys, Goto, TypeOK
  <2>2. ASSUME NEW k \in job[t].keys
        PROVE  k \in KeyId /\ issued[k] # NoKey /\ issued[k].stay = job[t].stay
    BY <1>0, <2>2 DEF Selection, Job
  <2>3. ASSUME NEW k \in job[t].keys PROVE k \notin active'
    BY <2>1, <2>2, <2>3 DEF ActiveKeysOf, KeysOf
  <2> QED  BY <1>0, <2>1, <2>2, <2>3 DEF AtWork, Selection
<1>8. ASSUME NEW k \in KeyId, RevokeKey(t, k) PROVE AtWork(t)' /\ Selection(t)'
  <2>1. /\ UNCHANGED <<pc, issued, active>> /\ pc[t] = "revoke"
        /\ job'[t] = [job[t] EXCEPT !.keys = @ \ {k}]
    BY <1>0, <1>8 DEF RevokeKey, TypeOK
  <2>2. /\ job'[t].keys \subseteq job[t].keys /\ job'[t].stay = job[t].stay
        /\ job'[t] \in Job
    BY <1>0, <2>1 DEF Job
  <2> QED  BY <1>0, <2>1, <2>2 DEF AtWork, Selection
<1>9. CASE Issue(t)
  <2>1. CASE EffectiveWindow(job[t].stay, job[t].now).valid_until
               <= EffectiveWindow(job[t].stay, job[t].now).valid_from
    BY <1>0, <1>2, <1>9, <2>1 DEF Issue, Done
  <2>2. CASE ~(EffectiveWindow(job[t].stay, job[t].now).valid_until
               <= EffectiveWindow(job[t].stay, job[t].now).valid_from)
    <3>1. /\ pc'[t] = "add" /\ job'[t] = [job[t] EXCEPT !.room = stay_room[job[t].stay]]
          /\ pc[t] = "issue"
      BY <1>0, <1>9, <2>2 DEF Issue, TypeOK
    <3>2. job[t].stay \in StayId /\ job[t].now \in Nat
      BY <1>0 DEF Job
    <3>3. stay_room[job[t].stay] \in RoomId
      BY <1>0, <3>2 DEF TypeOK
    <3>4. /\ job'[t] \in Job /\ job'[t].stay = job[t].stay /\ job'[t].now = job[t].now
          /\ job'[t].room \in RoomId /\ job'[t].keys = {}
      BY <1>0, <1>3, <3>1, <3>3 DEF Job, MaybeRoom
    <3>5. EffectiveWindow(job[t].stay, job[t].now).valid_from
            < EffectiveWindow(job[t].stay, job[t].now).valid_until
      BY <2>2, <3>2, WindowFacts
    <3> QED  BY <3>1, <3>4, <3>5 DEF AtWork, Selection, EffectiveWindow
  <2> QED  BY <2>1, <2>2
<1> QED  BY <1>4, <1>5, <1>6, <1>7, <1>8, <1>9 DEF Step

LEMMA ThreadsInductive ==
  ASSUME IInv, [Next]_vars, NEW t \in Thread
  PROVE  AtWork(t)' /\ Selection(t)'
<1>1. CASE Step(t) \/ Abort(t)
  BY <1>1, OwnStepKeeps
<1>2. ASSUME NEW s \in StayId, Request(t, s) PROVE AtWork(t)' /\ Selection(t)'
  <2>1. PICK op, now, at : Start(t, op, s, now, at)
    BY <1>2 DEF Request, Checkin, Refresh, Checkout, ChangeRoom
  <2>2. job'[t].keys = {} /\ pc'[t] \in {"issue", "supersede", "select"}
    BY <1>2 DEF Request, Checkin, Refresh, Checkout, ChangeRoom, Start, IInv, TypeOK
  <2>3. job'[t] # NoJob
    BY <1>2 DEF Request, Checkin, Refresh, Checkout, ChangeRoom, Start, IInv, TypeOK, NoJob
  <2>4. job'[t] \in Job
    BY <2>3, TypeInductive DEF TypeOK
  <2> QED  BY <2>2, <2>4 DEF AtWork, Selection
<1>3. CASE pc'[t] = pc[t] /\ job'[t] = job[t]
  BY <1>3, OthersKeep
<1>4. ASSUME NEW u \in Thread \ {t}, Step(u) \/ Abort(u) \/ \E s \in StayId : Request(u, s)
      PROVE  pc'[t] = pc[t] /\ job'[t] = job[t]
  BY <1>4
     DEF Step, Request, Checkin, Refresh, Checkout, ChangeRoom, Supersede, SelectKeys,
         DeactivateKeys, RevokeKey, AllRevoked, FreeRoom, Leave, Move, MoveFails, Issue,
         AddKey, Abort, Start, Goto, Done, IInv, TypeOK
<1>5. CASE Tick \/ UNCHANGED vars
  BY <1>3, <1>5 DEF Tick, vars
<1> QED  BY <1>1, <1>2, <1>3, <1>4, <1>5 DEF Next

LEMMA IInvInductive == IInv /\ [Next]_vars => IInv'
BY TypeInductive, RowsInductive, InactiveInductive, WithinInductive, ThreadsInductive
   DEF IInv

(* The inductive invariant holds in every state. *)
THEOREM IInvHolds == Spec => []IInv
BY InitIInv, IInvInductive, PTL DEF Spec

(* The tables and the threads stay well typed. *)
THEOREM TypeCorrect == Spec => []TypeOK
BY IInvHolds, PTL DEF IInv

(* A revoked key is never active, whatever checkouts, room changes and     *)
(* refreshes of the stay run at once and wherever they die.                *)
THEOREM RevokedStaysInactive == Spec => []RevokedNotActive
BY IInvHolds, PTL DEF IInv

(* No key is valid before its stay begins, after it ends, or longer than   *)
(* the TTL after its issue, for every stay window and TTL.                 *)
THEOREM KeysStayWithin == Spec => []KeysWithinStay
BY IInvHolds, PTL DEF IInv
=============================================================================
