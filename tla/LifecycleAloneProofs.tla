------------------------ MODULE LifecycleAloneProofs ------------------------
(***************************************************************************)
(* What the lifecycle handlers keep up when they come one at a time and do *)
(* not die, as in every test of the repository: no key is forgotten,       *)
(* active keys are for the stay's room, and a checked-out stay is out.     *)
(* With two handlers at once, or one that dies, each of these fails.       *)
(***************************************************************************)
EXTENDS LifecycleProofs

(* A step of handlers that come one after the other and do not die. *)
Serving ==
  \/ Tick
  \/ \E t \in Thread : Step(t)
  \/ /\ \A t \in Thread : pc[t] = "idle"
     /\ \E t \in Thread, s \in StayId : Request(t, s)

(* One way to have them come like that: a single thread. *)
OneAtATime == (\A t, u \in Thread : t = u) /\ Mortal = {}

Alone == \A t, u \in Thread : pc[t] # "idle" /\ pc[u] # "idle" => t = u

(* How far the one handler at work has come with its stay: what it has     *)
(* selected is all there is, what it has deactivated stays so, the status  *)
(* it has checked and the room it has read still hold.                     *)
Progress(t) ==
  pc[t] # "idle" =>
    /\ pc[t] \in {"free", "leave"} => job[t].op = "checkout"
    /\ pc[t] \in {"supersede", "move", "issue", "add"} => job[t].op # "checkout"
    /\ job[t].op # "checkout" => status[job[t].stay] # "checked_out"
    /\ pc[t] = "deactivate" => job[t].keys = ActiveKeysOf(job[t].stay)
    /\ pc[t] \in {"revoke", "move", "free", "leave"} => ActiveKeysOf(job[t].stay) = {}
    /\ pc[t] = "leave" => assigned[job[t].stay] = NoRoom
    /\ pc[t] = "add" => job[t].room = stay_room[job[t].stay]

AInv == /\ Alone
        /\ NoKeyForgotten
        /\ ActiveKeyMatchesRoom
        /\ CheckedOutIsOut
        /\ \A t \in Thread : Progress(t)
-----------------------------------------------------------------------------
LEMMA ServingIsNext == [Serving]_vars => [Next]_vars
BY DEF Serving, Next

LEMMA SingleThreadServes == OneAtATime /\ [Next]_vars => [Serving]_vars
<1> SUFFICES ASSUME OneAtATime, Next PROVE Serving
  OBVIOUS
<1>1. \A t \in Thread : ~Abort(t)
  BY DEF OneAtATime, Abort
<1>2. ASSUME NEW t \in Thread, NEW s \in StayId, Request(t, s)
      PROVE  \A u \in Thread : pc[u] = "idle"
  BY <1>2 DEF OneAtATime, Request, Checkin, Refresh, Checkout, ChangeRoom, Start
<1> QED  BY <1>1, <1>2 DEF Next, Serving

(* A handler's step leaves the other threads alone, which are idle. *)
LEMMA OthersIdle ==
  ASSUME IInv, AInv, NEW t \in Thread, Step(t), NEW u \in Thread \ {t}
  PROVE  pc[u] = "idle" /\ pc'[u] = "idle" /\ job'[u] = job[u] /\ job[u].keys = {}
<1>1. pc[t] # "idle"
  BY DEF Step, Supersede, SelectKeys, DeactivateKeys, RevokeKey, AllRevoked, FreeRoom, Leave,
         Move, MoveFails, Issue, AddKey
<1>2. pc[u] = "idle"
  BY <1>1 DEF AInv, Alone
<1>3. job[u] \in Job \cup {NoJob} /\ Selection(u)
  BY DEF IInv, TypeOK
<1>4. job[u].keys = {}
  BY <1>2, <1>3 DEF Selection, Job, NoJob
<1>5. pc'[u] = pc[u] /\ job'[u] = job[u]
  BY DEF IInv, TypeOK, Step, Supersede, SelectKeys, DeactivateKeys, RevokeKey, AllRevoked,
         FreeRoom, Leave, Move, MoveFails, Issue, AddKey, Goto, Done
<1> QED  BY <1>2, <1>4, <1>5

LEMMA AloneInductive == IInv /\ AInv /\ [Serving]_vars => Alone'
<1> SUFFICES ASSUME IInv, AInv, [Serving]_vars PROVE Alone'
  OBVIOUS
<1>1. CASE Tick \/ UNCHANGED vars
  BY <1>1 DEF Tick, vars, AInv, Alone
<1>2. ASSUME NEW t \in Thread, Step(t) PROVE Alone'
  BY <1>2, OthersIdle DEF Alone
<1>3. ASSUME \A u \in Thread : pc[u] = "idle", NEW t \in Thread, NEW s \in StayId, Request(t, s)
      PROVE  Alone'
  BY <1>3 DEF Alone, Request, Checkin, Refresh, Checkout, ChangeRoom, Start, IInv, TypeOK
<1> QED  BY <1>1, <1>2, <1>3 DEF Serving

(* What the one handler at work has to go by. *)
LEMMA AtWorkFacts ==
  ASSUME IInv, AInv, NEW t \in Thread, Step(t)
  PROVE  /\ TypeOK /\ pc[t] # "idle" /\ job[t] \in Job /\ job[t].stay \in StayId
         /\ job[t].keys \subseteq KeyId
         /\ AtWork(t) /\ Selection(t) /\ Progress(t)
         /\ pc[t] \notin {"deactivate", "revoke"} => job[t].keys = {}
<1>1. /\ TypeOK /\ AtWork(t) /\ Selection(t) /\ Progress(t) /\ pc[t] # "idle"
  BY DEF IInv, AInv, Step, Supersede, SelectKeys, DeactivateKeys, RevokeKey,
         AllRevoked, FreeRoom, Leave, Move, MoveFails, Issue, AddKey
<1>2. job[t] \in Job
  BY <1>1 DEF AtWork
<1> QED  BY <1>1, <1>2 DEF Job, Selection

LEMMA InitAInv == Init => AInv
BY DEF Init, AInv, Alone, NoKeyForgotten, ActiveKeyMatchesRoom, CheckedOutIsOut, Progress

(* A key leaves the active ones by being superseded or in a handler's      *)
(* selection, and the selection only by being revoked.                     *)
LEMMA ForgottenInductive ==
  ASSUME IInv, AInv, [Serving]_vars
  PROVE  NoKeyForgotten'
<1> SUFFICES ASSUME NEW k \in KeyId, issued'[k] # NoKey, k \notin active'
             PROVE  k \in revoked' \cup lapsing' \/ \E t \in Thread : k \in job'[t].keys
  BY DEF NoKeyForgotten
<1>1. CASE Tick \/ UNCHANGED vars
  BY <1>1 DEF Tick, vars, AInv, NoKeyForgotten
<1>2. ASSUME \A u \in Thread : pc[u] = "idle",
             NEW t \in Thread, NEW s \in StayId, Request(t, s)
      PROVE  k \in revoked' \cup lapsing'
  <2>1. UNCHANGED <<issued, active, revoked, lapsing>>
    BY <1>2 DEF Request, Checkin, Refresh, Checkout, ChangeRoom, Start
  <2>2. \A u \in Thread : k \notin job[u].keys
    BY <1>2 DEF IInv, Selection
  <2> QED  BY <2>1, <2>2 DEF AInv, NoKeyForgotten
<1>3. ASSUME NEW t \in Thread, Step(t)
      PROVE  k \in revoked' \cup lapsing' \/ k \in job'[t].keys
  <2>0. /\ TypeOK /\ pc[t] # "idle" /\ job[t] \in Job /\ job[t].stay \in StayId
        /\ Progress(t)
        /\ pc[t] \notin {"deactivate", "revoke"} => job[t].keys = {}
    BY <1>3, AtWorkFacts
  <2>a. \A u \in Thread : k \in job[u].keys => u = t
    BY <1>3, OthersIdle
  <2>1. ASSUME UNCHANGED <<issued, active>> PROVE k \in revoked \cup lapsing \/ k \in job[t].keys
    BY <2>a, <2>1 DEF AInv, NoKeyForgotten
  <2>2. CASE Supersede(t)
    BY <2>0, <2>a, <2>2 DEF Supersede, AInv, NoKeyForgotten
  <2>3. CASE SelectKeys(t)
    BY <2>0, <2>1, <2>3 DEF SelectKeys
  <2>4. CASE DeactivateKeys(t)
    BY <2>0, <2>a, <2>4 DEF DeactivateKeys, Goto, Progress, AInv, NoKeyForgotten
  <2>5. ASSUME NEW j \in KeyId, RevokeKey(t, j)
        PROVE  k \in revoked' \cup lapsing' \/ k \in job'[t].keys
    <3>1. job'[t].keys = job[t].keys \ {j}
      BY <2>0, <2>5 DEF RevokeKey, TypeOK, Job
    <3> QED  BY <2>1, <2>5, <3>1 DEF RevokeKey
  <2>6. CASE AllRevoked(t) \/ FreeRoom(t) \/ (\E room \in RoomId : Move(t, room))
    BY <2>1, <2>6 DEF AllRevoked, FreeRoom, Move, Goto
  <2>7. CASE Leave(t) \/ MoveFails(t) \/ Issue(t)
    BY <2>0, <2>1, <2>7 DEF Leave, MoveFails, Issue
  <2>8. ASSUME NEW j \in KeyId, AddKey(t, j)
        PROVE  k \in revoked' \cup lapsing'
    <3>1. k # j /\ issued'[k] = issued[k] /\ k \notin active
      BY <2>0, <2>8 DEF AddKey, TypeOK
    <3> QED  BY <2>0, <2>a, <2>8, <3>1 DEF AddKey, AInv, NoKeyForgotten
  <2> QED  BY <1>3, <2>2, <2>3, <2>4, <2>5, <2>6, <2>7, <2>8 DEF Step
<1> QED  BY <1>1, <1>2, <1>3 DEF Serving

(* A key is added for the room just read, and a stay moves only when it    *)
(* has no active key.                                                      *)
LEMMA RoomInductive ==
  ASSUME IInv, AInv, [Serving]_vars
  PROVE  ActiveKeyMatchesRoom'
<1> SUFFICES ASSUME NEW k \in active'
             PROVE  issued'[k].room = stay_room'[issued'[k].stay]
  BY DEF ActiveKeyMatchesRoom
<1>1. k \in KeyId
  BY ServingIsNext, TypeInductive DEF TypeOK
<1>2. CASE k \in active
  <2>1. issued[k] # NoKey /\ issued'[k] = issued[k]
        /\ issued[k].room = stay_room[issued[k].stay]
    BY <1>1, <1>2, ServingIsNext, RowsStay DEF IInv, RowsExist, AInv, ActiveKeyMatchesRoom
  <2>2. ASSUME NEW t \in Thread, NEW room \in RoomId, Move(t, room)
        PROVE  stay_room'[issued[k].stay] = stay_room[issued[k].stay]
    <3>1. ActiveKeysOf(job[t].stay) = {}
      BY <2>2 DEF Move, AInv, Progress
    <3>2. issued[k].stay # job[t].stay
      BY <1>1, <1>2, <2>1, <3>1 DEF ActiveKeysOf, KeysOf
    <3>3. issued[k].stay \in StayId
      BY <1>1, <2>1 DEF IInv, TypeOK, KeyRow
    <3> QED  BY <2>2, <3>2, <3>3 DEF Move, IInv, TypeOK
  <2>3. CASE UNCHANGED stay_room
    BY <2>1, <2>3
  <2> QED  BY <2>1, <2>2, <2>3
           DEF Serving, Step, Request, Tick, Checkin, Refresh, Checkout, ChangeRoom, Supersede,
               SelectKeys, DeactivateKeys, RevokeKey, AllRevoked, FreeRoom, Leave,
               MoveFails, Issue, AddKey, vars
<1>3. CASE k \notin active
  <2>1. PICK t \in Thread : AddKey(t, k)
    BY <1>3
       DEF Serving, Step, Request, Tick, Checkin, Refresh, Checkout, ChangeRoom, Supersede,
           SelectKeys, DeactivateKeys, RevokeKey, AllRevoked, FreeRoom, Leave, Move,
           MoveFails, Issue, AddKey, vars
  <2>2. job[t].room = stay_room[job[t].stay]
    BY <2>1 DEF AddKey, AInv, Progress
  <2>3. issued'[k] = NewKey(t)
    BY <1>1, <2>1, NewKeyFacts DEF IInv, TypeOK
  <2> QED  BY <2>1, <2>2, <2>3 DEF AddKey, NewKey
<1> QED  BY <1>2, <1>3

(* A stay is marked only when it is out, and nothing that looked at the    *)
(* status before is still to give it a key or a room.                      *)
LEMMA OutInductive ==
  ASSUME IInv, AInv, [Serving]_vars
  PROVE  CheckedOutIsOut'
<1> SUFFICES ASSUME NEW s \in StayId, status'[s] = "checked_out"
             PROVE  ActiveKeysOf(s)' = {} /\ assigned'[s] = NoRoom
  BY DEF CheckedOutIsOut
<1>1. ASSUME ActiveKeysOf(s) = {}, issued' = issued, active' \subseteq active
      PROVE  ActiveKeysOf(s)' = {}
  BY <1>1 DEF ActiveKeysOf, KeysOf
<1>2. CASE status[s] = "checked_out"
  <2>1. ActiveKeysOf(s) = {} /\ assigned[s] = NoRoom
    BY <1>2 DEF AInv, CheckedOutIsOut
  <2>2. ASSUME NEW t \in Thread, NEW k \in KeyId, AddKey(t, k)
        PROVE  ActiveKeysOf(s)' = {} /\ assigned'[s] = NoRoom
    <3>1. job[t].stay # s
      BY <1>2, <2>2 DEF AddKey, AInv, Progress
    <3>2. issued' = [issued EXCEPT ![k] = NewKey(t)] /\ NewKey(t).stay = job[t].stay
      BY <2>2, NewKeyFacts DEF NewKey
    <3>3. active' = active \cup {k} /\ UNCHANGED assigned
      BY <2>2 DEF AddKey
    <3>4. issued \in [KeyId -> KeyRow \cup {NoKey}]
      BY DEF IInv, TypeOK
    <3> QED  BY <2>1, <3>1, <3>2, <3>3, <3>4 DEF ActiveKeysOf, KeysOf
  <2>3. ASSUME NEW t \in Thread, NEW room \in RoomId, Move(t, room)
        PROVE  ActiveKeysOf(s)' = {} /\ assigned'[s] = NoRoom
    <3>1. job[t].stay # s
      BY <1>2, <2>3 DEF Move, AInv, Progress
    <3> QED  BY <1>1, <2>1, <2>3, <3>1 DEF Move, IInv, TypeOK
  <2>4. ASSUME NEW t \in Thread, FreeRoom(t)
        PROVE  ActiveKeysOf(s)' = {} /\ assigned'[s] = NoRoom
    BY <1>1, <2>1, <2>4 DEF FreeRoom, IInv, TypeOK
  <2>5. CASE issued' = issued /\ active' \subseteq active /\ UNCHANGED assigned
    BY <1>1, <2>1, <2>5
  <2> QED  BY <2>2, <2>3, <2>4, <2>5
           DEF Serving, Step, Request, Tick, Checkin, Refresh, Checkout, ChangeRoom, Supersede,
               SelectKeys, DeactivateKeys, RevokeKey, AllRevoked, Leave,
               MoveFails, Issue, vars
<1>3. CASE status[s] # "checked_out"
  <2>1. PICK t \in Thread : Leave(t) /\ job[t].stay = s
    BY <1>3
       DEF Serving, Step, Request, Tick, Checkin, Refresh, Checkout, ChangeRoom, Supersede,
           SelectKeys, DeactivateKeys, RevokeKey, AllRevoked, FreeRoom, Leave, Move,
           MoveFails, Issue, AddKey, vars, IInv, TypeOK
  <2>2. ActiveKeysOf(s) = {} /\ assigned[s] = NoRoom
    BY <2>1 DEF Leave, AInv, Progress
  <2> QED  BY <1>1, <2>1, <2>2 DEF Leave
<1> QED  BY <1>2, <1>3

(* The handler's own steps take it forward; nothing else disturbs it.      *)
LEMMA ProgressInductive ==
  ASSUME IInv, AInv, [Serving]_vars, NEW t \in Thread
  PROVE  Progress(t)'
<1>1. CASE Tick \/ UNCHANGED vars
  BY <1>1 DEF Tick, vars, AInv, Progress, ActiveKeysOf, KeysOf
<1>2. ASSUME NEW s \in StayId, Request(t, s) PROVE Progress(t)'
  <2>1. CASE Checkin(t, s)
    BY <2>1 DEF Checkin, Start, Progress, IInv, TypeOK
  <2>2. CASE Refresh(t, s)
    BY <2>2 DEF Refresh, Start, Progress, IInv, TypeOK
  <2>3. CASE Checkout(t, s)
    BY <2>3 DEF Checkout, Start, Progress, IInv, TypeOK
  <2>4. CASE \E now \in {clock} \cup Override : ChangeRoom(t, s, now)
    BY <2>4 DEF ChangeRoom, Start, Progress, IInv, TypeOK
  <2> QED  BY <1>2, <2>1, <2>2, <2>3, <2>4 DEF Request
<1>3. ASSUME Step(t) PROVE Progress(t)'
  <2>0. /\ TypeOK /\ pc[t] # "idle" /\ job[t] \in Job /\ job[t].stay \in StayId
        /\ job[t].keys \subseteq KeyId /\ Progress(t)
        /\ pc[t] \notin {"deactivate", "revoke"} => job[t].keys = {}
    BY <1>3, AtWorkFacts
  <2>1. ASSUME Done(t) PROVE Progress(t)'
    BY <2>0, <2>1 DEF Done, Progress, TypeOK
  <2>2. CASE Supersede(t)
    BY <2>0, <2>2 DEF Supersede, Goto, Progress, TypeOK
  <2>3. CASE SelectKeys(t)
    <3>1. /\ pc'[t] = "deactivate" /\ job'[t].op = job[t].op /\ job'[t].stay = job[t].stay
          /\ job'[t].keys = ActiveKeysOf(job[t].stay)
          /\ UNCHANGED <<issued, active, status>> /\ pc[t] = "select"
      BY <2>0, <2>3 DEF SelectKeys, TypeOK, Job
    <3>2. ActiveKeysOf(job[t].stay)' = ActiveKeysOf(job[t].stay)
      BY <3>1 DEF ActiveKeysOf, KeysOf
    <3> QED  BY <2>0, <3>1, <3>2 DEF Progress
  <2>4. CASE DeactivateKeys(t)
    <3>1. ActiveKeysOf(job[t].stay)' = {}
      BY <2>4 DEF DeactivateKeys, Goto, ActiveKeysOf, KeysOf
    <3> QED  BY <2>0, <2>4, <3>1 DEF DeactivateKeys, Goto, Progress, TypeOK
  <2>5. ASSUME NEW k \in KeyId, RevokeKey(t, k) PROVE Progress(t)'
    <3>1. /\ pc[t] = "revoke" /\ job'[t].op = job[t].op /\ job'[t].stay = job[t].stay
          /\ UNCHANGED <<pc, issued, active, status>>
      BY <2>0, <2>5 DEF RevokeKey, TypeOK, Job
    <3>2. ActiveKeysOf(job[t].stay)' = ActiveKeysOf(job[t].stay)
      BY <3>1 DEF ActiveKeysOf, KeysOf
    <3> QED  BY <2>0, <3>1, <3>2 DEF Progress
  <2>6. CASE AllRevoked(t)
    <3>1. ActiveKeysOf(job[t].stay)' = ActiveKeysOf(job[t].stay)
      BY <2>6 DEF AllRevoked, Goto, ActiveKeysOf, KeysOf
    <3> QED  BY <2>0, <2>6, <3>1 DEF AllRevoked, Goto, Progress, TypeOK
  <2>7. CASE FreeRoom(t)
    <3>1. ActiveKeysOf(job[t].stay)' = ActiveKeysOf(job[t].stay)
      BY <2>7 DEF FreeRoom, Goto, ActiveKeysOf, KeysOf
    <3> QED  BY <2>0, <2>7, <3>1 DEF FreeRoom, Goto, Progress, TypeOK
  <2>8. ASSUME NEW room \in RoomId, Move(t, room) PROVE Progress(t)'
    BY <2>0, <2>8 DEF Move, Goto, Progress, TypeOK
  <2>9. CASE Issue(t)
    <3>1. CASE pc'[t] = "idle"
      BY <3>1 DEF Progress
    <3>2. CASE pc'[t] # "idle"
      <4>1. /\ pc[t] = "issue" /\ pc'[t] = "add" /\ UNCHANGED <<status, stay_room>>
            /\ job'[t] = [job[t] EXCEPT !.room = stay_room[job[t].stay]]
        BY <2>0, <2>9, <3>2 DEF Issue, TypeOK
      <4>2. /\ job'[t].op = job[t].op /\ job'[t].stay = job[t].stay
            /\ job'[t].room = stay_room[job[t].stay]
        BY <2>0, <4>1 DEF Job
      <4> QED  BY <2>0, <4>1, <4>2 DEF Progress
    <3> QED  BY <3>1, <3>2
  <2>10. CASE Leave(t) \/ MoveFails(t) \/ \E k \in KeyId : AddKey(t, k)
    BY <2>1, <2>10 DEF Leave, MoveFails, AddKey
  <2> QED  BY <1>3, <2>2, <2>3, <2>4, <2>5, <2>6, <2>7, <2>8, <2>9, <2>10 DEF Step
<1>4. ASSUME NEW u \in Thread \ {t}, Step(u) PROVE Progress(t)'
  BY <1>4, OthersIdle DEF Progress
<1>5. ASSUME \A v \in Thread : pc[v] = "idle",
             NEW u \in Thread \ {t}, NEW s \in StayId, Request(u, s)
      PROVE  Progress(t)'
  BY <1>5 DEF Progress, Request, Checkin, Refresh, Checkout, ChangeRoom, Start, IInv, TypeOK
<1> QED  BY <1>1, <1>2, <1>3, <1>4, <1>5 DEF Serving

LEMMA AInvInductive == IInv /\ AInv /\ [Serving]_vars => AInv'
BY AloneInductive, ForgottenInductive, RoomInductive, OutInductive, ProgressInductive DEF AInv

(* The strengthened invariant holds in every state, for one handler at a   *)
(* time, whatever the stays, rooms, windows and TTL.                       *)
LEMMA AInvHolds == ASSUME OneAtATime PROVE Spec => []AInv
<1>1. IInv /\ AInv /\ [Next]_vars => AInv'
  BY SingleThreadServes, AInvInductive
<1> QED  BY <1>1, InitAInv, IInvHolds, PTL DEF Spec

(* One handler at a time forgets no key: every key out of use has been     *)
(* superseded or revoked, or is about to be (deactivate_keys_for_stay and  *)
(* the loops over its result).                                             *)
THEOREM NoneForgotten == ASSUME OneAtATime PROVE Spec => []NoKeyForgotten
BY AInvHolds, PTL DEF AInv

(* One handler at a time leaves no active key of a room the stay has left  *)
(* (change_room revokes before it moves).                                  *)
THEOREM KeysMatchRoom == ASSUME OneAtATime PROVE Spec => []ActiveKeyMatchesRoom
BY AInvHolds, PTL DEF AInv

(* One handler at a time keeps a checked-out stay out: no active key and   *)
(* no room, until it checks in again (checkout, and the status checks of   *)
(* refresh_key and change_room).                                           *)
THEOREM CheckedOutStaysOut == ASSUME OneAtATime PROVE Spec => []CheckedOutIsOut
BY AInvHolds, PTL DEF AInv
=============================================================================
