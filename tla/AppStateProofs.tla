--------------------------- MODULE AppStateProofs ---------------------------
(***************************************************************************)
(* What the server process keeps up whatever its threads do between each   *)
(* other's steps and wherever it dies, for every set of threads, doors,    *)
(* keys, challenges and lock objects.                                      *)
(***************************************************************************)
EXTENDS AppState, TLAPS

(* A thread at work has a request, and from the moment lock_for has made   *)
(* or found one, a lock of its own door; one about to open the door has    *)
(* the challenge it was granted on.                                        *)
AtWork(t) ==
  /\ pc[t] # "idle" => job[t] \in Job
  /\ pc[t] \in {"register", "list", "write", "issue", "static", "check", "consume"} =>
       /\ job[t].lock \in LockId
       /\ locks[job[t].lock] \in Lock
       /\ locks[job[t].lock].room = job[t].room
  /\ pc[t] = "consume" => job[t].challenge \in Challenge

(* The registry lists a room's own lock. *)
Placed == \A r \in RoomId : registry[r] # NoLock =>
            locks[registry[r]] \in Lock /\ locks[registry[r]].room = r

(* The property key on its way from the environment or the file into use.  *)
KeyInv ==
  /\ env # NoSK => served \subseteq {env} /\ proc \in {"down", "up"}
  /\ env = NoSK => served = IF pem \in PropertyKey THEN {pem} ELSE {}
  /\ proc = "creating" => pem = NoSK /\ sk \in PropertyKey
  /\ proc = "writing" => pem = BrokenPEM /\ sk \in PropertyKey
  /\ proc = "up" => sk \in served

(* The challenges that lock l would accept. *)
HandedOut(l) ==
  {c \in Challenge : locks[l] \in Lock /\ locks[l].challenges.pending[c] # Absent}

(* A challenge is pending in one lock, of the door it was issued for, and  *)
(* has opened nothing; one that has opened a door was sent.                *)
Outstanding ==
  /\ \A l \in LockId : \A c \in HandedOut(l) :
       /\ home[c] = locks[l].room
       /\ opened[c] = 0
       /\ \A m \in LockId \ {l} : c \notin HandedOut(m)
  /\ \A c \in Challenge : opened[c] > 0 => home[c] # Unsent

(* A thread about to open the door: no other lock takes its challenge, and *)
(* the challenge is its door's and had opened nothing when the request     *)
(* came in; what had, has.                                                 *)
Presented(t) ==
  pc[t] # "idle" =>
    /\ \A c \in job[t].spent : opened[c] > 0
    /\ pc[t] = "consume" =>
         /\ home[job[t].challenge] = job[t].room
         /\ job[t].challenge \notin job[t].spent
         /\ \A l \in LockId \ {job[t].lock} : job[t].challenge \notin HandedOut(l)

(* A revocation on the table and on every list on its way to a lock. *)
Carried(k) ==
  /\ k \in revocations
  /\ \A u \in Thread : pc[u] = "write" => k \in job[u].list
  /\ \A u \in Thread : pc[u] = "register" => k \in locks[job[u].lock].revoked

(* A revocation that an unlock has to honour: a lock registered since the  *)
(* unlock looked its own up knows it; so does, after the unlock's sync,    *)
(* the lock that it will look up again, and then the one that decides.     *)
Floor(t, k) ==
  LET l == registry[job[t].room]
  IN  /\ Carried(k)
      /\ pc[t] \in {"list", "write"} =>
           l = job[t].lock \/ l = NoLock \/ k \in locks[l].revoked
      /\ pc[t] = "get" /\ job[t].synced => l = NoLock \/ k \in locks[l].revoked
      /\ pc[t] = "static" => k \in locks[job[t].lock].revoked
      /\ pc[t] \in {"check", "consume"} => k # job[t].key

FloorsHeld == \A t \in Thread : pc[t] # "idle" => \A k \in job[t].floor : Floor(t, k)

TInv == TypeOK /\ KeyInv /\ Placed /\ \A t \in Thread : AtWork(t)
CInv == Outstanding /\ \A t \in Thread : Presented(t)

-----------------------------------------------------------------------------
(* What the methods of the challenge store do to its entries. *)
LEMMA IssueEntries ==
  ASSUME NEW s \in ChallengeStore, NEW c \in Challenge, NEW now \in Nat
  PROVE  /\ Issue(s, c, now) \in ChallengeStore
         /\ \A x \in Challenge \ {c} : Issue(s, c, now).pending[x] \in {s.pending[x], Absent}
BY ChallengeTTLAssumption DEF Issue, Gc, NoOlderThan, ChallengeStore, Stamp, Absent

LEMMA ConsumeEntries ==
  ASSUME NEW s \in ChallengeStore, NEW c \in Challenge, NEW now \in Nat
  PROVE  /\ Consume(s, c, now) \in ChallengeStore
         /\ Consume(s, c, now).pending[c] = Absent
         /\ \A x \in Challenge \ {c} : Consume(s, c, now).pending[x] = s.pending[x]
BY DEF Consume, ChallengeStore, Stamp, Absent

LEMMA NewStoreEntries == /\ NewStore \in ChallengeStore
                         /\ \A c \in Challenge : NewStore.pending[c] = Absent
BY DEF NewStore, ChallengeStore, Stamp, Absent

(* A handler's step is the step of its own thread. *)
LEMMA OthersUntouched ==
  ASSUME TypeOK, NEW t \in Thread, NEW u \in Thread \ {t},
         Step(t) \/ \E room \in RoomId : Request(t, room)
  PROVE  pc'[u] = pc[u] /\ job'[u] = job[u]
BY DEF TypeOK, Step, Request, LockChallenge, LockUnlock, SyncLock, Begin, GetLock, BuildLock,
       RegisterLock, ReadList, WriteSnapshot, BeginUnlock, CheckToken, CheckChallenge,
       ConsumeChallenge, Goto, Done

(* What the steps of a thread at work may rely on. *)
LEMMA AtWorkFacts ==
  ASSUME TInv, NEW t \in Thread, Step(t)
  PROVE  /\ TypeOK /\ AtWork(t) /\ pc[t] # "idle"
         /\ job[t] \in Job /\ job[t] # NoJob /\ job[t].room \in RoomId
<1>1. TypeOK /\ AtWork(t) /\ pc[t] # "idle"
  BY DEF TInv, Step, GetLock, BuildLock, RegisterLock, ReadList, WriteSnapshot, BeginUnlock,
         CheckToken, CheckChallenge, ConsumeChallenge
<1>2. job[t] \in Job
  BY <1>1 DEF AtWork
<1> QED  BY <1>1, <1>2 DEF Job, NoJob

(* A new lock is of the handler's room and has nothing pending. *)
LEMMA BuildFacts ==
  ASSUME TInv, NEW t \in Thread, NEW l \in LockId, BuildLock(t, l)
  PROVE  /\ locks'[l] \in Lock /\ locks'[l].room = job[t].room
         /\ locks'[l].revoked = revocations
         /\ \A c \in Challenge : locks'[l].challenges.pending[c] = Absent
         /\ \A m \in LockId \ {l} : locks'[m] = locks[m]
         /\ locks' \in [LockId -> Lock \cup {NoJob}]
<1>1. /\ TypeOK /\ job[t].room \in RoomId
  BY AtWorkFacts DEF Step
<1>2. [room |-> job[t].room, revoked |-> revocations, challenges |-> NewStore] \in Lock
  BY <1>1, NewStoreEntries DEF Lock, TypeOK
<1> QED  BY <1>1, <1>2, NewStoreEntries DEF BuildLock, TypeOK

(* Replacing the snapshot leaves the rest of the lock alone. *)
LEMMA WriteFacts ==
  ASSUME TInv, NEW t \in Thread, WriteSnapshot(t)
  PROVE  LET l == job[t].lock
         IN  /\ l \in LockId
             /\ locks'[l] \in Lock /\ locks'[l].room = locks[l].room
             /\ locks'[l].revoked = job[t].list
             /\ locks'[l].challenges = locks[l].challenges
             /\ \A m \in LockId \ {l} : locks'[m] = locks[m]
             /\ locks' \in [LockId -> Lock \cup {NoJob}]
<1>1. TypeOK /\ AtWork(t) /\ job[t] \in Job /\ pc[t] = "write"
  BY AtWorkFacts DEF Step, WriteSnapshot
<1>2. job[t].lock \in LockId /\ locks[job[t].lock] \in Lock /\ job[t].list \subseteq KeyId
  BY <1>1 DEF AtWork, Job
<1>3. [locks[job[t].lock] EXCEPT !.revoked = job[t].list] \in Lock
  BY <1>2 DEF Lock
<1>4. locks' = [locks EXCEPT ![job[t].lock] = [locks[job[t].lock] EXCEPT !.revoked = job[t].list]]
  BY DEF WriteSnapshot
<1> QED  BY <1>1, <1>2, <1>3, <1>4 DEF TypeOK, Lock

(* Handing out a challenge adds it to what the lock would accept.          *)
LEMMA BeginFacts ==
  ASSUME TInv, NEW t \in Thread, NEW c \in Challenge, BeginUnlock(t, c)
  PROVE  LET l == job[t].lock
         IN  /\ l \in LockId
             /\ locks[l] \in Lock /\ locks[l].room = job[t].room
             /\ locks'[l] \in Lock /\ locks'[l].room = locks[l].room
             /\ locks'[l].revoked = locks[l].revoked
             /\ \A x \in Challenge \ {c} :
                  locks'[l].challenges.pending[x] \in {locks[l].challenges.pending[x], Absent}
             /\ \A m \in LockId \ {l} : locks'[m] = locks[m]
             /\ locks' \in [LockId -> Lock \cup {NoJob}]
<1>1. TypeOK /\ AtWork(t) /\ pc[t] = "issue"
  BY AtWorkFacts DEF Step, BeginUnlock
<1>2. /\ job[t].lock \in LockId /\ locks[job[t].lock] \in Lock
      /\ locks[job[t].lock].room = job[t].room
  BY <1>1 DEF AtWork
<1>3. PICK store : store = Issue(locks[job[t].lock].challenges, c, clock)
  OBVIOUS
<1>4. /\ store \in ChallengeStore
      /\ \A x \in Challenge \ {c} :
           store.pending[x] \in {locks[job[t].lock].challenges.pending[x], Absent}
  BY <1>1, <1>2, <1>3, IssueEntries DEF Lock, TypeOK
<1>5. [locks[job[t].lock] EXCEPT !.challenges = store] \in Lock
  BY <1>2, <1>4 DEF Lock
<1>6. locks' = [locks EXCEPT ![job[t].lock] = [locks[job[t].lock] EXCEPT !.challenges = store]]
  BY <1>3 DEF BeginUnlock
<1> QED  BY <1>1, <1>2, <1>4, <1>5, <1>6 DEF TypeOK, Lock

(* Consuming one takes it away. *)
LEMMA ConsumeFacts ==
  ASSUME TInv, NEW t \in Thread, ConsumeChallenge(t)
  PROVE  LET l == job[t].lock
         IN  /\ l \in LockId /\ job[t].challenge \in Challenge
             /\ locks[l] \in Lock
             /\ locks'[l] \in Lock /\ locks'[l].room = locks[l].room
             /\ locks'[l].revoked = locks[l].revoked
             /\ locks'[l].challenges.pending[job[t].challenge] = Absent
             /\ \A x \in Challenge \ {job[t].challenge} :
                  locks'[l].challenges.pending[x] = locks[l].challenges.pending[x]
             /\ \A m \in LockId \ {l} : locks'[m] = locks[m]
             /\ locks' \in [LockId -> Lock \cup {NoJob}]
<1>1. TypeOK /\ AtWork(t) /\ job[t] \in Job /\ pc[t] = "consume"
  BY AtWorkFacts DEF Step, ConsumeChallenge
<1>2. /\ job[t].lock \in LockId /\ locks[job[t].lock] \in Lock
      /\ job[t].challenge \in Challenge /\ job[t].now \in Nat
  BY <1>1 DEF AtWork, Job
<1>3. PICK store : store = Consume(locks[job[t].lock].challenges, job[t].challenge, job[t].now)
  OBVIOUS
<1>4. /\ store \in ChallengeStore
      /\ store.pending[job[t].challenge] = Absent
      /\ \A x \in Challenge \ {job[t].challenge} :
           store.pending[x] = locks[job[t].lock].challenges.pending[x]
  BY <1>2, <1>3, ConsumeEntries DEF Lock
<1>5. [locks[job[t].lock] EXCEPT !.challenges = store] \in Lock
  BY <1>2, <1>4 DEF Lock
<1>6. locks' = [locks EXCEPT ![job[t].lock] = [locks[job[t].lock] EXCEPT !.challenges = store]]
  BY <1>3 DEF ConsumeChallenge
<1> QED  BY <1>1, <1>2, <1>4, <1>5, <1>6 DEF TypeOK, Lock

(* A lock in use stays a lock of its room: the objects are never reused    *)
(* while the registry or a handler refers to them.                         *)
LEMMA LocksKept ==
  ASSUME TInv, NEW t \in Thread, Step(t), NEW l \in InUse \cap LockId, locks[l] \in Lock
  PROVE  locks'[l] \in Lock /\ locks'[l].room = locks[l].room
<1>1. CASE \E m \in LockId : BuildLock(t, m)
  BY <1>1, BuildFacts DEF BuildLock
<1>2. CASE WriteSnapshot(t)
  BY <1>2, WriteFacts
<1>3. CASE \E c \in Challenge : BeginUnlock(t, c)
  BY <1>3, BeginFacts
<1>4. CASE ConsumeChallenge(t)
  BY <1>4, ConsumeFacts
<1>5. CASE UNCHANGED locks
  BY <1>5
<1> QED  BY <1>1, <1>2, <1>3, <1>4, <1>5
         DEF Step, GetLock, RegisterLock, ReadList, CheckToken, CheckChallenge

-----------------------------------------------------------------------------
LEMMA InitTInv == Init => TInv
<1> SUFFICES ASSUME Init PROVE TInv
  OBVIOUS
<1>1. TypeOK
  BY DEF Init, TypeOK
<1>2. KeyInv /\ Placed /\ \A t \in Thread : AtWork(t)
  BY AppAssumption DEF Init, KeyInv, Placed, AtWork
<1> QED  BY <1>1, <1>2 DEF TInv

(* A start either finds the key or makes one for the file, which nothing   *)
(* overwrites after it has been served from.                               *)
LEMMA KeyInductive == TInv /\ [Next]_vars => KeyInv'
<1> SUFFICES ASSUME TInv, [Next]_vars PROVE KeyInv'
  OBVIOUS
<1>0. TypeOK /\ KeyInv
  BY DEF TInv
<1>1. CASE LoadKey
  BY <1>0, <1>1, AppAssumption DEF LoadKey, Serve, KeyInv, TypeOK
<1>2. ASSUME NEW key \in PropertyKey, GenerateKey(key) PROVE KeyInv'
  BY <1>0, <1>2, AppAssumption DEF GenerateKey, KeyInv
<1>3. CASE OpenKeyFile
  BY <1>0, <1>3, AppAssumption DEF OpenKeyFile, KeyInv
<1>4. CASE WriteKeyFile
  BY <1>0, <1>4, AppAssumption DEF WriteKeyFile, Serve, KeyInv
<1>5. CASE Crash
  BY <1>0, <1>5 DEF Crash, KeyInv
<1>6. CASE UNCHANGED keyVars
  BY <1>0, <1>6 DEF keyVars, KeyInv
<1> QED  BY <1>1, <1>2, <1>3, <1>4, <1>5, <1>6
         DEF Next, Tick, StartFails, Revoke, Step, Request, LockChallenge, LockUnlock, SyncLock,
             Begin, GetLock, BuildLock, RegisterLock, ReadList, WriteSnapshot, BeginUnlock,
             CheckToken, CheckChallenge, ConsumeChallenge, vars

(* A request has a job of the right shape. *)
LEMMA RequestFacts ==
  ASSUME TypeOK, NEW t \in Thread, NEW room \in RoomId, Request(t, room)
  PROVE  /\ pc[t] = "idle" /\ pc'[t] = "get" /\ job'[t] \in Job
         /\ pc' = [pc EXCEPT ![t] = "get"] /\ job' = [job EXCEPT ![t] = job'[t]]
         /\ job'[t].room = room /\ job'[t].synced = FALSE
         /\ \A k \in job'[t].floor : k \in revocations /\ \A list \in OnTheWay : k \in list
         /\ \A c \in job'[t].spent : c \in Challenge /\ opened[c] > 0
         /\ UNCHANGED <<clock, env, pem, proc, sk, served, registry, locks, revocations,
                        home, opened>>
<1>1. PICK op \in {"challenge", "unlock", "sync"} : Begin(t, op, room, "get", FALSE)
  BY DEF Request, LockChallenge, LockUnlock, SyncLock
<1>2. PICK new : new =
        [op |-> op, room |-> room, synced |-> FALSE, lock |-> NoLock, list |-> {},
         floor |-> {k \in revocations : op = "unlock" /\ \A list \in OnTheWay : k \in list},
         spent |-> {c \in Challenge : op = "unlock" /\ opened[c] > 0},
         now |-> 0, key |-> NoSK, challenge |-> NoSK]
  OBVIOUS
<1>3. new \in Job
  BY <1>2 DEF TypeOK, Job
<1>4. job' = [job EXCEPT ![t] = new] /\ job'[t] = new
  BY <1>1, <1>2 DEF Begin, TypeOK
<1> QED  BY <1>1, <1>2, <1>3, <1>4 DEF Begin, TypeOK, keyVars

LEMMA TypeInductive == TInv /\ [Next]_vars => TypeOK'
<1> SUFFICES ASSUME TInv, [Next]_vars PROVE TypeOK'
  OBVIOUS
<1>0. TypeOK
  BY DEF TInv
<1>1. CASE Tick \/ UNCHANGED vars \/ StartFails \/ \E k \in KeyId : Revoke(k)
  BY <1>0, <1>1 DEF Tick, vars, StartFails, Revoke, TypeOK, keyVars, threadVars
<1>2. CASE LoadKey \/ OpenKeyFile \/ WriteKeyFile \/ \E key \in PropertyKey : GenerateKey(key)
  <2>1. proc = "writing" => sk \in PropertyKey
    BY DEF TInv, KeyInv
  <2>2. /\ UNCHANGED <<clock, registry, locks, revocations, pc, job, home, opened, env>>
        /\ sk' \in PropertyKey \cup {NoSK} /\ pem' \in PropertyKey \cup {NoSK, BrokenPEM}
        /\ proc' \in {"down", "creating", "writing", "up"} /\ served' \subseteq PropertyKey
    BY <1>0, <1>2, <2>1 DEF LoadKey, OpenKeyFile, WriteKeyFile, GenerateKey, Serve, shared,
                            threadVars, TypeOK
  <2> QED  BY <1>0, <2>2 DEF TypeOK
<1>3. CASE Crash
  BY <1>0, <1>3 DEF Crash, TypeOK
<1>4. ASSUME NEW t \in Thread, NEW room \in RoomId, Request(t, room) PROVE TypeOK'
  <2>1. /\ pc' \in [Thread -> {"idle", "get", "build", "register", "list", "write",
                               "issue", "static", "check", "consume"}]
        /\ job' \in [Thread -> Job \cup {NoJob}]
    <3>1. /\ pc' = [pc EXCEPT ![t] = "get"] /\ job' = [job EXCEPT ![t] = job'[t]]
          /\ job'[t] \in Job
      BY <1>0, <1>4, RequestFacts
    <3> QED  BY <1>0, <3>1 DEF TypeOK
  <2>2. UNCHANGED <<clock, env, pem, proc, sk, served, registry, locks, revocations,
                    home, opened>>
    BY <1>0, <1>4, RequestFacts
  <2> QED  BY <1>0, <2>1, <2>2 DEF TypeOK
<1>5. ASSUME NEW t \in Thread, Step(t) PROVE TypeOK'
  <2>0. /\ AtWork(t) /\ pc[t] # "idle" /\ job[t] \in Job /\ job[t].room \in RoomId
    BY <1>5, AtWorkFacts
  <2>1. /\ UNCHANGED <<clock, env, pem, proc, sk, served, revocations>>
    BY <1>5 DEF Step, GetLock, BuildLock, RegisterLock, ReadList, WriteSnapshot, BeginUnlock,
                CheckToken, CheckChallenge, ConsumeChallenge, keyVars
  <2>2. locks' \in [LockId -> Lock \cup {NoJob}]
    <3>1. CASE UNCHANGED locks
      BY <1>0, <3>1 DEF TypeOK
    <3> QED  BY <1>5, <3>1, BuildFacts, WriteFacts, BeginFacts, ConsumeFacts
             DEF Step, GetLock, RegisterLock, ReadList, CheckToken, CheckChallenge
  <2>3. registry' \in [RoomId -> LockId \cup {NoLock}]
    <3>1. CASE RegisterLock(t)
      BY <1>0, <2>0, <3>1 DEF TypeOK, RegisterLock, AtWork
    <3>2. CASE UNCHANGED registry
      BY <1>0, <3>2 DEF TypeOK
    <3> QED  BY <1>5, <3>1, <3>2
             DEF Step, GetLock, BuildLock, ReadList, WriteSnapshot, BeginUnlock,
                 CheckToken, CheckChallenge, ConsumeChallenge
  <2>4. pc' \in [Thread -> {"idle", "get", "build", "register", "list", "write",
                            "issue", "static", "check", "consume"}]
    BY <1>0, <1>5 DEF TypeOK, Step, GetLock, BuildLock, RegisterLock, ReadList, WriteSnapshot,
                      BeginUnlock, CheckToken, CheckChallenge, ConsumeChallenge, Goto, Done,
                      WithLock
  <2>5. job' \in [Thread -> Job \cup {NoJob}]
    <3>1. ASSUME NEW new \in Job \cup {NoJob}, job' = [job EXCEPT ![t] = new]
          PROVE  job' \in [Thread -> Job \cup {NoJob}]
      BY <1>0, <3>1 DEF TypeOK
    <3>2. CASE GetLock(t)
      <4>1. [job[t] EXCEPT !.lock = registry[job[t].room]] \in Job
        BY <1>0, <2>0 DEF TypeOK, Job
      <4> QED  BY <3>1, <3>2, <4>1 DEF GetLock
    <3>3. ASSUME NEW l \in LockId, BuildLock(t, l) PROVE job' \in [Thread -> Job \cup {NoJob}]
      <4>1. [job[t] EXCEPT !.lock = l] \in Job
        BY <2>0 DEF Job
      <4> QED  BY <3>1, <3>3, <4>1 DEF BuildLock
    <3>4. CASE RegisterLock(t)
      BY <1>0, <3>4 DEF RegisterLock, TypeOK
    <3>5. CASE ReadList(t)
      <4>1. [job[t] EXCEPT !.list = revocations] \in Job
        BY <1>0, <2>0 DEF TypeOK, Job
      <4> QED  BY <3>1, <3>5, <4>1 DEF ReadList
    <3>6. CASE WriteSnapshot(t)
      <4>1. [job[t] EXCEPT !.synced = TRUE] \in Job
        BY <2>0 DEF Job
      <4>2. CASE job[t].op = "sync"
        BY <3>1, <3>6, <4>2 DEF WriteSnapshot, Done
      <4>3. CASE job[t].op # "sync"
        <5>1. job' = [job EXCEPT ![t] = [job[t] EXCEPT !.synced = TRUE]]
          BY <1>0, <3>6, <4>3 DEF WriteSnapshot, TypeOK
        <5> QED  BY <3>1, <4>1, <5>1
      <4> QED  BY <4>2, <4>3
    <3>7. CASE ConsumeChallenge(t) \/ \E c \in Challenge : BeginUnlock(t, c)
      BY <3>1, <3>7 DEF ConsumeChallenge, BeginUnlock, Done
    <3>8. ASSUME NEW k \in KeyId, NEW signer \in PropertyKey, NEW now \in {clock} \cup Override,
                 CheckToken(t, k, signer, now)
          PROVE  job' \in [Thread -> Job \cup {NoJob}]
      <4>1. now \in Nat
        BY <1>0, AppAssumption DEF TypeOK
      <4>2. [[job[t] EXCEPT !.key = k] EXCEPT !.now = now] \in Job
        BY <2>0, <4>1 DEF Job
      <4>3. \/ Done(t)
            \/ job' = [job EXCEPT ![t] = [[job[t] EXCEPT !.key = k] EXCEPT !.now = now]]
        BY <1>0, <3>8 DEF CheckToken, TypeOK
      <4> QED  BY <3>1, <4>2, <4>3 DEF Done
    <3>9. ASSUME NEW c \in Challenge, NEW device \in Device, CheckChallenge(t, c, device)
          PROVE  job' \in [Thread -> Job \cup {NoJob}]
      <4>1. [job[t] EXCEPT !.challenge = c] \in Job
        BY <2>0 DEF Job
      <4> QED  BY <3>1, <3>9, <4>1 DEF CheckChallenge, Done
    <3> QED  BY <1>5, <3>2, <3>3, <3>4, <3>5, <3>6, <3>7, <3>8, <3>9 DEF Step
  <2>6. home' \in [Challenge -> RoomId \cup {Unsent, Lost}] /\ opened' \in [Challenge -> Nat]
    <3>1. CASE ConsumeChallenge(t)
      <4>1. job[t].challenge \in Challenge
        BY <3>1, ConsumeFacts
      <4> QED  BY <1>0, <3>1, <4>1 DEF TypeOK, ConsumeChallenge
    <3>2. ASSUME NEW c \in Challenge, BeginUnlock(t, c)
          PROVE  home' \in [Challenge -> RoomId \cup {Unsent, Lost}] /\ UNCHANGED opened
      BY <1>0, <2>0, <3>2 DEF TypeOK, BeginUnlock
    <3>3. CASE UNCHANGED <<home, opened>>
      BY <1>0, <3>3 DEF TypeOK
    <3> QED  BY <1>0, <1>5, <3>1, <3>2, <3>3
             DEF Step, GetLock, BuildLock, RegisterLock, ReadList, WriteSnapshot, CheckToken,
                 CheckChallenge, TypeOK
  <2> QED  BY <1>0, <2>1, <2>2, <2>3, <2>4, <2>5, <2>6 DEF TypeOK
<1> QED  BY <1>1, <1>2, <1>3, <1>4, <1>5 DEF Next

(* Which lock is whose, for the registry and for the threads. *)
LEMMA PlacedInductive == TInv /\ [Next]_vars => Placed'
<1> SUFFICES ASSUME TInv, [Next]_vars PROVE Placed'
  OBVIOUS
<1>0. TypeOK /\ Placed
  BY DEF TInv
<1>1. ASSUME NEW t \in Thread, Step(t) PROVE Placed'
  <2> SUFFICES ASSUME NEW r \in RoomId, registry'[r] # NoLock
               PROVE  locks'[registry'[r]] \in Lock /\ locks'[registry'[r]].room = r
    BY DEF Placed
  <2>1. CASE registry'[r] = registry[r]
    <3>1. /\ registry[r] \in InUse \cap LockId /\ locks[registry[r]] \in Lock
          /\ locks[registry[r]].room = r
      BY <1>0, <2>1 DEF InUse, TypeOK, Placed
    <3> QED  BY <1>1, <2>1, <3>1, LocksKept
  <2>2. CASE registry'[r] # registry[r]
    <3>1. RegisterLock(t) /\ registry'[r] = job[t].lock /\ r = job[t].room /\ UNCHANGED locks
      BY <1>0, <1>1, <2>2
         DEF TypeOK, Step, GetLock, BuildLock, RegisterLock, ReadList, WriteSnapshot,
             BeginUnlock, CheckToken, CheckChallenge, ConsumeChallenge
    <3> QED  BY <3>1 DEF RegisterLock, TInv, AtWork
  <2> QED  BY <2>1, <2>2
<1>2. CASE Crash
  BY <1>2 DEF Crash, Placed
<1>3. CASE UNCHANGED <<registry, locks>>
  BY <1>0, <1>3 DEF Placed
<1> QED  BY <1>1, <1>2, <1>3
         DEF Next, Tick, LoadKey, OpenKeyFile, WriteKeyFile, GenerateKey, StartFails, Revoke,
             Request, LockChallenge, LockUnlock, SyncLock, Begin, shared, vars

LEMMA OwnStepKeeps ==
  ASSUME TInv, NEW t \in Thread, Step(t) PROVE AtWork(t)'
<1>0. /\ TypeOK /\ AtWork(t) /\ Placed /\ pc[t] # "idle" /\ job[t] \in Job /\ job[t] # NoJob
      /\ job[t].room \in RoomId
  BY AtWorkFacts DEF TInv
<1>1. ASSUME Done(t) PROVE AtWork(t)'
  BY <1>0, <1>1 DEF Done, AtWork, TypeOK
<1>2. ASSUME NEW at \in {"list", "write", "issue", "static", "check", "get"}, pc'[t] = at,
             job'[t] \in Job, job'[t].room = job[t].room, UNCHANGED locks,
             at # "get" => job'[t].lock \in LockId /\ locks[job'[t].lock] \in Lock
                           /\ locks[job'[t].lock].room = job[t].room
      PROVE  AtWork(t)'
  BY <1>2 DEF AtWork
<1>3. WithLock(t) \in {"issue", "static", "list"}
  BY DEF WithLock
<1>4. CASE GetLock(t)
  <2>1. /\ job'[t] = [job[t] EXCEPT !.lock = registry[job[t].room]] /\ UNCHANGED locks
        /\ pc'[t] = IF registry[job[t].room] = NoLock THEN "build" ELSE WithLock(t)
    BY <1>0, <1>4 DEF GetLock, Goto, TypeOK
  <2>2. /\ job'[t] \in Job /\ job'[t].room = job[t].room
        /\ job'[t].lock = registry[job[t].room]
    BY <1>0, <2>1 DEF Job, TypeOK
  <2>3. CASE registry[job[t].room] = NoLock
    BY <2>1, <2>2, <2>3 DEF AtWork
  <2>4. CASE registry[job[t].room] # NoLock
    <3>1. /\ registry[job[t].room] \in LockId /\ locks[registry[job[t].room]] \in Lock
          /\ locks[registry[job[t].room]].room = job[t].room
      BY <1>0, <2>4 DEF Placed, TypeOK
    <3> QED  BY <1>2, <1>3, <2>1, <2>2, <2>4, <3>1
  <2> QED  BY <2>3, <2>4
<1>5. ASSUME NEW l \in LockId, BuildLock(t, l) PROVE AtWork(t)'
  <2>1. job'[t] = [job[t] EXCEPT !.lock = l] /\ pc'[t] = "register"
    BY <1>0, <1>5 DEF BuildLock, Goto, TypeOK
  <2>2. job'[t] \in Job /\ job'[t].lock = l /\ job'[t].room = job[t].room
    BY <1>0, <2>1 DEF Job
  <2>3. locks'[l] \in Lock /\ locks'[l].room = job[t].room
    BY <1>5, BuildFacts
  <2> QED  BY <2>1, <2>2, <2>3 DEF AtWork
<1>6. CASE RegisterLock(t)
  BY <1>0, <1>2, <1>3, <1>6 DEF RegisterLock, Goto, TypeOK, AtWork
<1>7. CASE ReadList(t)
  <2>1. /\ job'[t] = [job[t] EXCEPT !.list = revocations] /\ pc'[t] = "write" /\ pc[t] = "list"
        /\ UNCHANGED locks
    BY <1>0, <1>7 DEF ReadList, Goto, TypeOK
  <2>2. job'[t] \in Job /\ job'[t].lock = job[t].lock /\ job'[t].room = job[t].room
    BY <1>0, <2>1 DEF Job, TypeOK
  <2> QED  BY <1>0, <1>2, <2>1, <2>2 DEF AtWork
<1>8. CASE WriteSnapshot(t)
  <2>1. CASE job[t].op = "sync"
    BY <1>1, <1>8, <2>1 DEF WriteSnapshot
  <2>2. CASE job[t].op # "sync"
    <3>1. /\ job'[t] = [job[t] EXCEPT !.synced = TRUE]
          /\ pc'[t] = "get"
      BY <1>0, <1>8, <2>2 DEF WriteSnapshot, Goto, TypeOK
    <3>2. job'[t] \in Job
      BY <1>0, <3>1 DEF Job
    <3> QED  BY <3>1, <3>2 DEF AtWork
  <2> QED  BY <2>1, <2>2
<1>9. CASE ConsumeChallenge(t) \/ \E c \in Challenge : BeginUnlock(t, c)
  BY <1>1, <1>9 DEF ConsumeChallenge, BeginUnlock
<1>10. ASSUME NEW k \in KeyId, NEW signer \in PropertyKey, NEW now \in {clock} \cup Override,
              CheckToken(t, k, signer, now)
       PROVE  AtWork(t)'
  <2>1. \/ Done(t)
        \/ /\ job'[t] = [[job[t] EXCEPT !.key = k] EXCEPT !.now = now]
           /\ pc'[t] = "check" /\ pc[t] = "static" /\ UNCHANGED locks
    BY <1>0, <1>10 DEF CheckToken, Goto, TypeOK
  <2>2. now \in Nat
    BY <1>0, AppAssumption DEF TypeOK
  <2>3. CASE ~Done(t)
    <3>1. job'[t] \in Job /\ job'[t].lock = job[t].lock /\ job'[t].room = job[t].room
      BY <1>0, <2>1, <2>2, <2>3 DEF Job
    <3> QED  BY <1>0, <1>2, <2>1, <2>3, <3>1 DEF AtWork
  <2> QED  BY <1>1, <2>3
<1>11. ASSUME NEW c \in Challenge, NEW device \in Device, CheckChallenge(t, c, device)
       PROVE  AtWork(t)'
  <2>1. \/ Done(t)
        \/ /\ job'[t] = [job[t] EXCEPT !.challenge = c]
           /\ pc'[t] = "consume" /\ pc[t] = "check" /\ UNCHANGED locks
    BY <1>0, <1>11 DEF CheckChallenge, Goto, TypeOK
  <2>2. CASE ~Done(t)
    <3>1. /\ job'[t] \in Job /\ job'[t].lock = job[t].lock /\ job'[t].room = job[t].room
          /\ job'[t].challenge = c
      BY <1>0, <2>1, <2>2 DEF Job
    <3> QED  BY <1>0, <2>1, <2>2, <3>1 DEF AtWork
  <2> QED  BY <1>1, <2>2
<1> QED  BY <1>4, <1>5, <1>6, <1>7, <1>8, <1>9, <1>10, <1>11 DEF Step

LEMMA AtWorkInductive ==
  ASSUME TInv, [Next]_vars, NEW t \in Thread PROVE AtWork(t)'
<1>0. TypeOK /\ AtWork(t)
  BY DEF TInv
<1>1. CASE Step(t)
  BY <1>1, OwnStepKeeps
<1>2. ASSUME NEW u \in Thread \ {t}, Step(u) PROVE AtWork(t)'
  <2>1. pc'[t] = pc[t] /\ job'[t] = job[t]
    BY <1>0, <1>2, OthersUntouched
  <2>2. CASE pc[t] \in {"register", "list", "write", "issue", "static", "check", "consume"}
    <3>1. job[t] \in Job /\ job[t] # NoJob /\ job[t].lock \in LockId /\ locks[job[t].lock] \in Lock
      BY <1>0, <2>2 DEF AtWork, Job, NoJob
    <3>2. job[t].lock \in InUse \cap LockId
      BY <3>1 DEF InUse
    <3> QED  BY <1>0, <1>2, <2>1, <2>2, <3>1, <3>2, LocksKept DEF AtWork
  <2>3. CASE pc[t] \notin {"register", "list", "write", "issue", "static", "check", "consume"}
    BY <1>0, <2>1, <2>3 DEF AtWork
  <2> QED  BY <2>2, <2>3
<1>3. ASSUME NEW u \in Thread, NEW room \in RoomId, Request(u, room) PROVE AtWork(t)'
  <2>1. CASE t = u
    BY <1>0, <1>3, <2>1, RequestFacts DEF AtWork
  <2>2. CASE t # u
    BY <1>0, <1>3, <2>2, OthersUntouched, RequestFacts DEF AtWork
  <2> QED  BY <2>1, <2>2
<1>4. CASE Crash
  BY <1>4 DEF Crash, AtWork
<1>5. CASE UNCHANGED <<pc, job, locks>>
  BY <1>0, <1>5 DEF AtWork
<1> QED  BY <1>1, <1>2, <1>3, <1>4, <1>5
         DEF Next, Tick, LoadKey, OpenKeyFile, WriteKeyFile, GenerateKey, StartFails, Revoke,
             shared, threadVars, vars

LEMMA TInvInductive == TInv /\ [Next]_vars => TInv'
BY TypeInductive, KeyInductive, PlacedInductive, AtWorkInductive DEF TInv

-----------------------------------------------------------------------------
LEMMA NoLockObject == NoJob \notin Lock
BY DEF NoJob, Lock

(* A lock comes to accept a challenge only by handing it out. *)
LEMMA HandedOutGrows ==
  ASSUME TInv, NEW t \in Thread, Step(t), NEW l \in LockId, NEW c \in HandedOut(l)'
  PROVE  \/ c \in HandedOut(l) /\ locks'[l].room = locks[l].room
         \/ BeginUnlock(t, c) /\ l = job[t].lock
<1>0. c \in Challenge /\ locks'[l] \in Lock /\ locks'[l].challenges.pending[c] # Absent
  BY DEF HandedOut
<1>1. ASSUME locks'[l] = locks[l] PROVE c \in HandedOut(l) /\ locks'[l].room = locks[l].room
  BY <1>0, <1>1 DEF HandedOut
<1>2. ASSUME NEW m \in LockId, BuildLock(t, m)
      PROVE  c \in HandedOut(l) /\ locks'[l].room = locks[l].room
  BY <1>0, <1>1, <1>2, BuildFacts
<1>3. CASE WriteSnapshot(t)
  <2>1. CASE l = job[t].lock
    <3>1. locks[l] \in Lock
      BY <1>3, <2>1, AtWorkFacts DEF Step, AtWork, WriteSnapshot
    <3> QED  BY <1>0, <1>3, <2>1, <3>1, WriteFacts DEF HandedOut
  <2>2. CASE l # job[t].lock
    BY <1>1, <1>3, <2>2, WriteFacts
  <2> QED  BY <2>1, <2>2
<1>4. ASSUME NEW d \in Challenge, BeginUnlock(t, d)
      PROVE  \/ c \in HandedOut(l) /\ locks'[l].room = locks[l].room
             \/ c = d /\ l = job[t].lock
  <2>1. CASE l = job[t].lock /\ c # d
    BY <1>0, <1>4, <2>1, BeginFacts DEF HandedOut
  <2>2. CASE l # job[t].lock
    BY <1>1, <1>4, <2>2, BeginFacts
  <2> QED  BY <2>1, <2>2
<1>5. CASE ConsumeChallenge(t)
  <2>1. CASE l = job[t].lock
    BY <1>0, <1>5, <2>1, ConsumeFacts DEF HandedOut
  <2>2. CASE l # job[t].lock
    BY <1>1, <1>5, <2>2, ConsumeFacts
  <2> QED  BY <2>1, <2>2
<1>6. CASE UNCHANGED locks
  BY <1>1, <1>6
<1> QED  BY <1>2, <1>3, <1>4, <1>5, <1>6
         DEF Step, GetLock, RegisterLock, ReadList, CheckToken, CheckChallenge

(* A challenge about to be handed out is in no lock and on nobody's way to *)
(* the door.                                                               *)
LEMMA FreshChallenge ==
  ASSUME TInv, CInv, NEW t \in Thread, NEW c \in Challenge, BeginUnlock(t, c)
  PROVE  /\ opened[c] = 0
         /\ \A l \in LockId : c \notin HandedOut(l)
         /\ \A u \in Thread : pc[u] = "consume" => job[u].challenge # c
<1>1. home[c] = Unsent /\ Unsent \notin RoomId
  BY AppAssumption DEF BeginUnlock
<1>2. opened[c] = 0
  BY <1>1 DEF CInv, Outstanding, TInv, TypeOK
<1>3. ASSUME NEW l \in LockId, c \in HandedOut(l) PROVE FALSE
  <2>1. locks[l].room \in RoomId
    BY <1>3 DEF HandedOut, Lock
  <2> QED  BY <1>1, <1>3, <2>1 DEF CInv, Outstanding
<1>4. ASSUME NEW u \in Thread, pc[u] = "consume", job[u].challenge = c PROVE FALSE
  <2>1. job[u] \in Job /\ home[c] = job[u].room
    BY <1>4 DEF TInv, AtWork, CInv, Presented
  <2> QED  BY <1>1, <2>1 DEF Job
<1> QED  BY <1>2, <1>3, <1>4

(* What has opened a door has, and only consuming a challenge adds to it.  *)
LEMMA OpenedGrows ==
  ASSUME TInv, [Next]_vars, NEW c \in Challenge
  PROVE  opened'[c] >= opened[c] /\ opened'[c] \in Nat
<1>0. opened \in [Challenge -> Nat]
  BY DEF TInv, TypeOK
<1>1. ASSUME NEW t \in Thread, ConsumeChallenge(t) PROVE opened'[c] >= opened[c]
  BY <1>0, <1>1 DEF ConsumeChallenge
<1>2. CASE UNCHANGED opened
  BY <1>0, <1>2
<1>3. opened'[c] \in Nat
  BY TypeInductive DEF TypeOK
<1> QED  BY <1>1, <1>2, <1>3
         DEF Next, Step, Request, Tick, LoadKey, OpenKeyFile, WriteKeyFile, GenerateKey,
             StartFails, Crash, Revoke, LockChallenge, LockUnlock, SyncLock, Begin, GetLock,
             BuildLock, RegisterLock, ReadList, WriteSnapshot, BeginUnlock, CheckToken,
             CheckChallenge, shared, vars

LEMMA InitCInv == Init => CInv
<1> SUFFICES ASSUME Init PROVE CInv
  OBVIOUS
<1>1. \A l \in LockId : HandedOut(l) = {}
  BY NoLockObject DEF Init, HandedOut
<1>2. Outstanding
  BY <1>1 DEF Init, Outstanding
<1>3. \A t \in Thread : Presented(t)
  BY DEF Init, Presented
<1> QED  BY <1>2, <1>3 DEF CInv

LEMMA OutstandingInductive == TInv /\ CInv /\ [Next]_vars => Outstanding'
<1> SUFFICES ASSUME TInv, CInv, [Next]_vars PROVE Outstanding'
  OBVIOUS
<1>0. Outstanding /\ TypeOK
  BY DEF CInv, TInv
<1>1. ASSUME NEW t \in Thread, NEW c \in Challenge, BeginUnlock(t, c) PROVE Outstanding'
  <2>1. /\ opened[c] = 0 /\ \A l \in LockId : c \notin HandedOut(l)
    BY <1>1, FreshChallenge
  <2>2. /\ home' = [home EXCEPT ![c] = job[t].room] /\ UNCHANGED opened
    BY <1>1 DEF BeginUnlock
  <2>3. /\ job[t].room \in RoomId /\ Unsent \notin RoomId
        /\ locks'[job[t].lock].room = job[t].room /\ job[t].lock \in LockId
    BY <1>1, BeginFacts, AtWorkFacts, AppAssumption DEF Step
  <2>4. ASSUME NEW l \in LockId, NEW x \in HandedOut(l)', x # c
        PROVE  x \in HandedOut(l) /\ locks'[l].room = locks[l].room
    BY <1>1, <2>4, BeginFacts DEF HandedOut
  <2>5. ASSUME NEW l \in LockId, c \in HandedOut(l)' PROVE l = job[t].lock
    BY <1>1, <2>1, <2>5, BeginFacts DEF HandedOut
  <2>6. ASSUME NEW l \in LockId, NEW x \in HandedOut(l)'
        PROVE  /\ home'[x] = locks'[l].room
               /\ opened'[x] = 0
               /\ \A m \in LockId \ {l} : x \notin HandedOut(m)'
    <3>0. x \in Challenge
      BY <2>6 DEF HandedOut
    <3>1. CASE x = c
      BY <1>0, <2>1, <2>2, <2>3, <2>5, <2>6, <3>1 DEF TypeOK
    <3>2. CASE x # c
      BY <1>0, <2>2, <2>4, <2>6, <3>0, <3>2 DEF TypeOK, Outstanding
    <3> QED  BY <3>1, <3>2
  <2>7. ASSUME NEW x \in Challenge, opened'[x] > 0 PROVE home'[x] # Unsent
    BY <1>0, <2>2, <2>3, <2>7 DEF TypeOK, Outstanding
  <2> QED  BY <2>6, <2>7 DEF Outstanding
<1>2. ASSUME NEW t \in Thread, ConsumeChallenge(t) PROVE Outstanding'
  <2>1. PICK c \in Challenge : c = job[t].challenge
    BY <1>2, ConsumeFacts
  <2>2. /\ opened' = [opened EXCEPT ![c] = @ + 1] /\ UNCHANGED home
    BY <1>2, <2>1 DEF ConsumeChallenge
  <2>3. /\ home[c] = job[t].room /\ job[t].room \in RoomId /\ Unsent \notin RoomId
        /\ \A l \in LockId \ {job[t].lock} : c \notin HandedOut(l)
    BY <1>2, <2>1, AtWorkFacts, AppAssumption DEF Step, ConsumeChallenge, CInv, Presented
  <2>4. ASSUME NEW l \in LockId, NEW x \in HandedOut(l)'
        PROVE  x \in HandedOut(l) /\ locks'[l].room = locks[l].room /\ x # c
    BY <1>2, <2>1, <2>3, <2>4, ConsumeFacts DEF HandedOut
  <2>5. ASSUME NEW l \in LockId, NEW x \in HandedOut(l)'
        PROVE  /\ home'[x] = locks'[l].room
               /\ opened'[x] = 0
               /\ \A m \in LockId \ {l} : x \notin HandedOut(m)'
    <3>0. x \in Challenge
      BY <2>5 DEF HandedOut
    <3> QED  BY <1>0, <2>2, <2>4, <2>5, <3>0 DEF TypeOK, Outstanding
  <2>6. ASSUME NEW x \in Challenge, opened'[x] > 0 PROVE home'[x] # Unsent
    BY <1>0, <2>2, <2>3, <2>6 DEF TypeOK, Outstanding
  <2> QED  BY <2>5, <2>6 DEF Outstanding
<1>3. ASSUME NEW t \in Thread, Step(t), UNCHANGED <<home, opened>>,
             \A c \in Challenge : ~BeginUnlock(t, c)
      PROVE  Outstanding'
  <2>1. ASSUME NEW l \in LockId, NEW x \in HandedOut(l)'
        PROVE  x \in HandedOut(l) /\ locks'[l].room = locks[l].room
    <3>1. x \in Challenge
      BY <2>1 DEF HandedOut
    <3> QED  BY <1>3, <2>1, <3>1, HandedOutGrows
  <2> QED  BY <1>0, <1>3, <2>1 DEF Outstanding
<1>4. CASE Crash
  <2>1. \A l \in LockId : HandedOut(l)' = {}
    BY <1>4, NoLockObject DEF Crash, HandedOut
  <2>2. \A c \in Challenge : opened'[c] > 0 => home'[c] # Unsent
    BY <1>0, <1>4, AppAssumption DEF Crash, Outstanding
  <2> QED  BY <2>1, <2>2 DEF Outstanding
<1>5. CASE UNCHANGED <<locks, home, opened>>
  BY <1>0, <1>5 DEF Outstanding, HandedOut
<1>6. ASSUME NEW t \in Thread, Step(t)
      PROVE  \/ ConsumeChallenge(t) \/ \E c \in Challenge : BeginUnlock(t, c)
             \/ UNCHANGED <<home, opened>>
  BY <1>6 DEF Step, GetLock, BuildLock, RegisterLock, ReadList, WriteSnapshot, CheckToken,
              CheckChallenge
<1> QED  BY <1>1, <1>2, <1>3, <1>4, <1>5, <1>6
         DEF Next, Request, Tick, LoadKey, OpenKeyFile, WriteKeyFile, GenerateKey,
             StartFails, Revoke, LockChallenge, LockUnlock, SyncLock, Begin, shared, vars

(* A challenge that passes the check is this door's and has opened nothing.*)
LEMMA OwnPresentation ==
  ASSUME TInv, CInv, [Next]_vars, NEW t \in Thread, Step(t)
  PROVE  Presented(t)'
<1>0. /\ TypeOK /\ AtWork(t) /\ Presented(t) /\ pc[t] # "idle" /\ job[t] \in Job
  BY AtWorkFacts DEF CInv
<1>1. ASSUME Done(t) PROVE Presented(t)'
  BY <1>0, <1>1 DEF Done, Presented, TypeOK
<1>2. ASSUME job'[t].spent = job[t].spent PROVE \A c \in job'[t].spent : opened'[c] > 0
  <2>1. job[t].spent \subseteq Challenge /\ \A c \in job[t].spent : opened[c] > 0
    BY <1>0 DEF Presented, Job
  <2> QED  BY <1>0, <1>2, <2>1, OpenedGrows DEF TypeOK
<1>3. ASSUME NEW c \in Challenge, NEW device \in Device, CheckChallenge(t, c, device), ~Done(t)
      PROVE  Presented(t)'
  <2>1. /\ Check(locks[job[t].lock].challenges, c, job[t].now) = "ok" /\ pc[t] = "check"
        /\ job'[t] = [job[t] EXCEPT !.challenge = c]
        /\ UNCHANGED <<locks, home, opened>>
    BY <1>0, <1>3 DEF CheckChallenge, TypeOK
  <2>2. /\ job'[t].challenge = c /\ job'[t].spent = job[t].spent
        /\ job'[t].lock = job[t].lock /\ job'[t].room = job[t].room
    BY <1>0, <2>1 DEF Job
  <2>3. c \in HandedOut(job[t].lock) /\ job[t].lock \in LockId
        /\ locks[job[t].lock].room = job[t].room
    BY <1>0, <2>1 DEF HandedOut, Check, AtWork
  <2>4. /\ home[c] = job[t].room /\ opened[c] = 0
        /\ \A l \in LockId \ {job[t].lock} : c \notin HandedOut(l)
    BY <2>3 DEF CInv, Outstanding
  <2>5. c \notin job[t].spent
    BY <1>0, <2>4 DEF Presented
  <2>6. \A l \in LockId : HandedOut(l)' = HandedOut(l)
    BY <2>1 DEF HandedOut
  <2> QED  BY <1>2, <2>1, <2>2, <2>4, <2>5, <2>6 DEF Presented
<1>4. ASSUME pc'[t] # "consume", job'[t].spent = job[t].spent PROVE Presented(t)'
  BY <1>2, <1>4 DEF Presented
<1>5. CASE GetLock(t) \/ RegisterLock(t) \/ ReadList(t) \/ \E l \in LockId : BuildLock(t, l)
  <2>1. pc'[t] # "consume"
    BY <1>0, <1>5 DEF GetLock, RegisterLock, ReadList, BuildLock, Goto, WithLock, TypeOK
  <2>2. job'[t].spent = job[t].spent
    BY <1>0, <1>5 DEF GetLock, RegisterLock, ReadList, BuildLock, TypeOK, Job
  <2> QED  BY <1>4, <2>1, <2>2
<1>6. CASE WriteSnapshot(t)
  <2>1. CASE job[t].op # "sync"
    <3>1. pc'[t] = "get" /\ job'[t] = [job[t] EXCEPT !.synced = TRUE]
      BY <1>0, <1>6, <2>1 DEF WriteSnapshot, Goto, TypeOK
    <3>2. job'[t].spent = job[t].spent
      BY <1>0, <3>1 DEF Job
    <3> QED  BY <1>4, <3>1, <3>2
  <2> QED  BY <1>1, <1>6, <2>1 DEF WriteSnapshot
<1>7. CASE ConsumeChallenge(t) \/ \E c \in Challenge : BeginUnlock(t, c)
  BY <1>1, <1>7 DEF ConsumeChallenge, BeginUnlock
<1>8. ASSUME NEW k \in KeyId, NEW signer \in PropertyKey, NEW now \in {clock} \cup Override,
             CheckToken(t, k, signer, now)
      PROVE  Presented(t)'
  <2>1. \/ Done(t)
        \/ /\ job'[t] = [[job[t] EXCEPT !.key = k] EXCEPT !.now = now]
           /\ pc'[t] = "check"
    BY <1>0, <1>8 DEF CheckToken, Goto, TypeOK
  <2>2. CASE ~Done(t)
    <3>1. job'[t].spent = job[t].spent
      BY <1>0, <2>1, <2>2 DEF Job
    <3> QED  BY <1>4, <2>1, <2>2, <3>1
  <2> QED  BY <1>1, <2>2
<1> QED  BY <1>1, <1>3, <1>5, <1>6, <1>7, <1>8 DEF Step

LEMMA PresentedInductive ==
  ASSUME TInv, CInv, [Next]_vars, NEW t \in Thread
  PROVE  Presented(t)'
<1>0. TypeOK /\ AtWork(t) /\ Presented(t)
  BY DEF TInv, CInv
<1>1. CASE Step(t)
  BY <1>1, OwnPresentation
<1>2. ASSUME pc'[t] = pc[t], job'[t] = job[t],
             pc[t] = "consume" =>
               /\ home'[job[t].challenge] = home[job[t].challenge]
               /\ \A l \in LockId \ {job[t].lock} : job[t].challenge \notin HandedOut(l)'
      PROVE  Presented(t)'
  <2>1. CASE pc[t] # "idle"
    <3>1. job[t].spent \subseteq Challenge /\ \A c \in job[t].spent : opened[c] > 0
      BY <1>0, <2>1 DEF AtWork, Presented, Job
    <3>2. \A c \in job[t].spent : opened'[c] > 0
      BY <1>0, <3>1, OpenedGrows DEF TypeOK
    <3> QED  BY <1>0, <1>2, <2>1, <3>2 DEF Presented
  <2> QED  BY <1>2, <2>1 DEF Presented
<1>3. ASSUME NEW u \in Thread \ {t}, Step(u) PROVE Presented(t)'
  <2>1. pc'[t] = pc[t] /\ job'[t] = job[t]
    BY <1>0, <1>3, OthersUntouched
  <2>2. ASSUME pc[t] = "consume"
        PROVE  /\ home'[job[t].challenge] = home[job[t].challenge]
               /\ \A l \in LockId \ {job[t].lock} : job[t].challenge \notin HandedOut(l)'
    <3>1. PICK c \in Challenge : c = job[t].challenge
      BY <1>0, <2>2 DEF AtWork
    <3>2. ~BeginUnlock(u, c)
      BY <2>2, <3>1, FreshChallenge
    <3>3. \A l \in LockId \ {job[t].lock} : c \notin HandedOut(l)'
      BY <1>0, <1>3, <2>2, <3>1, <3>2, HandedOutGrows DEF Presented
    <3>4. home'[c] = home[c]
      BY <1>0, <1>3, <3>2
         DEF TypeOK, Step, GetLock, BuildLock, RegisterLock, ReadList, WriteSnapshot,
             BeginUnlock, CheckToken, CheckChallenge, ConsumeChallenge
    <3> QED  BY <3>1, <3>3, <3>4
  <2> QED  BY <1>2, <2>1, <2>2
<1>4. ASSUME NEW u \in Thread, NEW room \in RoomId, Request(u, room) PROVE Presented(t)'
  <2>1. UNCHANGED <<locks, home, opened>>
    BY <1>0, <1>4, RequestFacts
  <2>2. CASE t = u
    BY <1>0, <1>4, <2>1, <2>2, RequestFacts DEF Presented
  <2>3. CASE t # u
    <3>1. pc'[t] = pc[t] /\ job'[t] = job[t]
      BY <1>0, <1>4, <2>3, OthersUntouched
    <3> QED  BY <1>0, <1>2, <2>1, <3>1 DEF HandedOut, Presented
  <2> QED  BY <2>2, <2>3
<1>5. CASE Crash
  BY <1>5 DEF Crash, Presented
<1>6. CASE UNCHANGED <<pc, job, locks, home, opened>>
  BY <1>0, <1>6 DEF Presented, HandedOut
<1> QED  BY <1>1, <1>3, <1>4, <1>5, <1>6
         DEF Next, Tick, LoadKey, OpenKeyFile, WriteKeyFile, GenerateKey, StartFails, Revoke,
             shared, threadVars, vars

-----------------------------------------------------------------------------
(* Every list that is read or written from now on has a carried revocation,*)
(* so that no lock forgets it.                                             *)
LEMMA CarriedKept ==
  ASSUME TInv, NEW u \in Thread, Step(u), NEW k \in KeyId, Carried(k)
  PROVE  /\ Carried(k)'
         /\ \A l \in LockId : k \in locks[l].revoked => k \in locks'[l].revoked
<1>0. /\ TypeOK /\ AtWork(u) /\ pc[u] # "idle" /\ job[u] \in Job
  BY AtWorkFacts
<1>1. k \in revocations /\ UNCHANGED revocations
  BY DEF Carried, Step, GetLock, BuildLock, RegisterLock, ReadList, WriteSnapshot,
         BeginUnlock, CheckToken, CheckChallenge, ConsumeChallenge
<1>2. \A l \in LockId : k \in locks[l].revoked => k \in locks'[l].revoked
  <2>1. ASSUME NEW m \in LockId, BuildLock(u, m), NEW l \in LockId, k \in locks[l].revoked
        PROVE  k \in locks'[l].revoked
    BY <1>1, <2>1, BuildFacts
  <2>2. ASSUME WriteSnapshot(u), NEW l \in LockId, k \in locks[l].revoked
        PROVE  k \in locks'[l].revoked
    <3>1. k \in job[u].list
      BY <2>2 DEF Carried, WriteSnapshot
    <3> QED  BY <2>2, <3>1, WriteFacts
  <2>3. ASSUME NEW c \in Challenge, BeginUnlock(u, c), NEW l \in LockId, k \in locks[l].revoked
        PROVE  k \in locks'[l].revoked
    BY <2>3, BeginFacts
  <2>4. ASSUME ConsumeChallenge(u), NEW l \in LockId, k \in locks[l].revoked
        PROVE  k \in locks'[l].revoked
    BY <2>4, ConsumeFacts
  <2>5. CASE UNCHANGED locks
    BY <2>5
  <2> QED  BY <2>1, <2>2, <2>3, <2>4, <2>5
           DEF Step, GetLock, RegisterLock, ReadList, CheckToken, CheckChallenge
<1>3. ASSUME NEW v \in Thread, pc'[v] = "write" PROVE k \in job'[v].list
  <2>1. CASE v # u
    BY <1>0, <1>3, <2>1, OthersUntouched DEF Carried
  <2>2. CASE v = u
    <3>1. ReadList(u)
      BY <1>0, <1>3, <2>2
         DEF TypeOK, Step, GetLock, BuildLock, RegisterLock, ReadList, WriteSnapshot,
             BeginUnlock, CheckToken, CheckChallenge, ConsumeChallenge, Goto, Done, WithLock
    <3>2. job'[u] = [job[u] EXCEPT !.list = revocations]
      BY <1>0, <3>1 DEF ReadList, TypeOK
    <3>3. job'[u].list = revocations
      BY <1>0, <3>2 DEF Job
    <3> QED  BY <1>1, <2>2, <3>3
  <2> QED  BY <2>1, <2>2
<1>4. ASSUME NEW v \in Thread, pc'[v] = "register" PROVE k \in locks'[job'[v].lock].revoked
  <2>1. CASE v # u
    <3>1. pc[v] = "register" /\ job'[v] = job[v]
      BY <1>0, <1>4, <2>1, OthersUntouched
    <3>2. job[v].lock \in LockId /\ k \in locks[job[v].lock].revoked
      BY <3>1 DEF TInv, AtWork, Carried
    <3> QED  BY <1>2, <3>1, <3>2
  <2>2. CASE v = u
    <3>1. PICK l \in LockId : BuildLock(u, l)
      BY <1>0, <1>4, <2>2
         DEF TypeOK, Step, GetLock, BuildLock, RegisterLock, ReadList, WriteSnapshot,
             BeginUnlock, CheckToken, CheckChallenge, ConsumeChallenge, Goto, Done, WithLock
    <3>2. job'[u] = [job[u] EXCEPT !.lock = l]
      BY <1>0, <3>1 DEF BuildLock, TypeOK
    <3>3. job'[u].lock = l
      BY <1>0, <3>2 DEF Job
    <3> QED  BY <1>1, <2>2, <3>1, <3>3, BuildFacts
  <2> QED  BY <2>1, <2>2
<1> QED  BY <1>1, <1>2, <1>3, <1>4 DEF Carried

(* What passes the static checks is not revoked in the lock's snapshot. *)
LEMMA TokenPasses ==
  ASSUME NEW k, NEW signer, NEW key, NEW property, NEW room, NEW now, NEW list,
         EvaluateStatic(TokenOf(k, signer), key, property, room, now, list) = "pass"
  PROVE  k \notin list
BY DEF EvaluateStatic, TokenOf, CredentialOf

(* An unlock's own steps. *)
LEMMA OwnFloor ==
  ASSUME TInv, FloorsHeld, NEW t \in Thread, Step(t), pc'[t] # "idle", NEW k \in job'[t].floor
  PROVE  Floor(t, k)'
<1>0. /\ TypeOK /\ AtWork(t) /\ pc[t] # "idle" /\ job[t] \in Job /\ job[t].room \in RoomId
  BY AtWorkFacts
<1>1. ASSUME k \in job[t].floor
      PROVE  /\ Floor(t, k) /\ k \in KeyId /\ Carried(k)'
             /\ \A l \in LockId : k \in locks[l].revoked => k \in locks'[l].revoked
  <2>1. Floor(t, k) /\ k \in KeyId
    BY <1>0, <1>1 DEF FloorsHeld, Job
  <2> QED  BY <2>1, CarriedKept DEF Floor
<1>2. CASE GetLock(t)
  <2>1. /\ job'[t] = [job[t] EXCEPT !.lock = registry[job[t].room]]
        /\ UNCHANGED <<locks, registry>> /\ pc[t] = "get"
        /\ pc'[t] = IF registry[job[t].room] = NoLock THEN "build" ELSE WithLock(t)
    BY <1>0, <1>2 DEF GetLock, Goto, TypeOK
  <2>2. /\ job'[t].lock = registry[job[t].room] /\ job'[t].room = job[t].room
        /\ job'[t].floor = job[t].floor /\ job'[t].synced = job[t].synced
    BY <1>0, <2>1 DEF Job
  <2>3. Floor(t, k) /\ Carried(k)'
    BY <1>1, <2>2
  <2> QED  BY <2>1, <2>2, <2>3 DEF Floor, WithLock
<1>3. ASSUME NEW l \in LockId, BuildLock(t, l) PROVE Floor(t, k)'
  <2>1. /\ job'[t] = [job[t] EXCEPT !.lock = l] /\ pc'[t] = "register"
    BY <1>0, <1>3 DEF BuildLock, Goto, TypeOK
  <2>2. job'[t].floor = job[t].floor
    BY <1>0, <2>1 DEF Job
  <2> QED  BY <1>1, <2>1, <2>2 DEF Floor
<1>4. CASE RegisterLock(t)
  <2>1. /\ job'[t] = job[t] /\ UNCHANGED locks /\ pc[t] = "register" /\ pc'[t] = WithLock(t)
        /\ registry'[job[t].room] = job[t].lock
    BY <1>0, <1>4 DEF RegisterLock, Goto, TypeOK
  <2>2. k \in locks[job[t].lock].revoked /\ Carried(k)'
    BY <1>1, <2>1 DEF Floor, Carried
  <2> QED  BY <2>1, <2>2 DEF Floor, WithLock
<1>5. CASE ReadList(t)
  <2>1. /\ job'[t] = [job[t] EXCEPT !.list = revocations] /\ pc'[t] = "write"
        /\ pc[t] = "list" /\ UNCHANGED <<locks, registry>>
    BY <1>0, <1>5 DEF ReadList, Goto, TypeOK
  <2>2. /\ job'[t].floor = job[t].floor /\ job'[t].room = job[t].room
        /\ job'[t].lock = job[t].lock
    BY <1>0, <2>1 DEF Job
  <2> QED  BY <1>1, <2>1, <2>2 DEF Floor
<1>6. CASE WriteSnapshot(t)
  <2>1. /\ job'[t] = [job[t] EXCEPT !.synced = TRUE]
        /\ pc'[t] = "get" /\ pc[t] = "write" /\ UNCHANGED registry
    BY <1>0, <1>6 DEF WriteSnapshot, Goto, Done, TypeOK
  <2>2. job'[t].floor = job[t].floor /\ job'[t].room = job[t].room
    BY <1>0, <2>1 DEF Job
  <2>3. Floor(t, k) /\ Carried(k)'
        /\ \A l \in LockId : k \in locks[l].revoked => k \in locks'[l].revoked
    BY <1>1, <2>2
  <2>4. job[t].lock \in LockId /\ k \in locks'[job[t].lock].revoked
    BY <1>6, <2>1, <2>3, WriteFacts DEF Floor, Carried
  <2>5. registry[job[t].room] = NoLock \/ registry[job[t].room] \in LockId
    BY <1>0 DEF TypeOK
  <2> QED  BY <2>1, <2>2, <2>3, <2>4, <2>5 DEF Floor
<1>7. CASE ConsumeChallenge(t) \/ \E c \in Challenge : BeginUnlock(t, c)
  BY <1>0, <1>7 DEF ConsumeChallenge, BeginUnlock, Done, TypeOK
<1>8. ASSUME NEW key \in KeyId, NEW signer \in PropertyKey, NEW now \in {clock} \cup Override,
             CheckToken(t, key, signer, now)
      PROVE  Floor(t, k)'
  <2>1. /\ job'[t] = [[job[t] EXCEPT !.key = key] EXCEPT !.now = now]
        /\ pc'[t] = "check" /\ pc[t] = "static"
        /\ EvaluateStatic(TokenOf(key, signer), sk, PropertyOf(locks[job[t].lock].room),
                          locks[job[t].lock].room, now, locks[job[t].lock].revoked) = "pass"
    BY <1>0, <1>8 DEF CheckToken, Goto, Done, TypeOK
  <2>2. key \notin locks[job[t].lock].revoked
    BY <2>1, TokenPasses
  <2>3. job'[t].floor = job[t].floor /\ job'[t].key = key
    BY <1>0, <2>1 DEF Job
  <2> QED  BY <1>1, <2>1, <2>2, <2>3 DEF Floor
<1>9. ASSUME NEW c \in Challenge, NEW device \in Device, CheckChallenge(t, c, device)
      PROVE  Floor(t, k)'
  <2>1. /\ job'[t] = [job[t] EXCEPT !.challenge = c] /\ pc'[t] = "consume" /\ pc[t] = "check"
    BY <1>0, <1>9 DEF CheckChallenge, Goto, Done, TypeOK
  <2>2. job'[t].floor = job[t].floor /\ job'[t].key = job[t].key
    BY <1>0, <2>1 DEF Job
  <2> QED  BY <1>1, <2>1, <2>2 DEF Floor
<1> QED  BY <1>2, <1>3, <1>4, <1>5, <1>6, <1>7, <1>8, <1>9 DEF Step

LEMMA FloorsInductive == TInv /\ FloorsHeld /\ [Next]_vars => FloorsHeld'
<1> SUFFICES ASSUME TInv, FloorsHeld, [Next]_vars, NEW t \in Thread, pc'[t] # "idle",
                    NEW k \in job'[t].floor
             PROVE  Floor(t, k)'
  BY DEF FloorsHeld
<1>0. TypeOK /\ Placed
  BY DEF TInv
<1>1. CASE Step(t)
  BY <1>1, OwnFloor
<1>2. ASSUME NEW u \in Thread \ {t}, Step(u) PROVE Floor(t, k)'
  <2>1. pc'[t] = pc[t] /\ job'[t] = job[t]
    BY <1>0, <1>2, OthersUntouched
  <2>2. Floor(t, k) /\ k \in KeyId /\ job[t].room \in RoomId /\ AtWork(t)
    BY <2>1 DEF FloorsHeld, TInv, AtWork, Job
  <2>3. Carried(k)' /\ \A l \in LockId : k \in locks[l].revoked => k \in locks'[l].revoked
    BY <1>2, <2>2, CarriedKept DEF Floor
  <2>4. \/ registry'[job[t].room] = registry[job[t].room]
        \/ /\ UNCHANGED locks
           /\ k \in locks[registry'[job[t].room]].revoked
    <3>1. CASE RegisterLock(u)
      BY <1>0, <2>2, <3>1 DEF RegisterLock, Floor, Carried, TypeOK
    <3> QED  BY <1>2, <3>1
             DEF Step, GetLock, BuildLock, ReadList, WriteSnapshot, BeginUnlock, CheckToken,
                 CheckChallenge, ConsumeChallenge
  <2>5. registry[job[t].room] = NoLock \/ registry[job[t].room] \in LockId
    BY <1>0, <2>2 DEF TypeOK
  <2>6. pc[t] = "static" => job[t].lock \in LockId
    BY <2>2 DEF AtWork
  <2> QED  BY <2>1, <2>2, <2>3, <2>4, <2>5, <2>6 DEF Floor
<1>3. ASSUME NEW u \in Thread, NEW room \in RoomId, Request(u, room) PROVE Floor(t, k)'
  <2>1. /\ UNCHANGED <<registry, locks, revocations>> /\ pc'[u] = "get"
        /\ \A v \in Thread \ {u} : pc'[v] = pc[v] /\ job'[v] = job[v]
    BY <1>0, <1>3, RequestFacts, OthersUntouched
  <2>2. ASSUME Carried(k) PROVE Carried(k)'
    BY <2>1, <2>2 DEF Carried
  <2>3. CASE t = u
    <3>1. job'[t].synced = FALSE /\ k \in revocations /\ \A list \in OnTheWay : k \in list
      BY <1>0, <1>3, <2>3, RequestFacts
    <3>2. Carried(k)
      BY <3>1 DEF Carried, OnTheWay
    <3> QED  BY <2>1, <2>2, <2>3, <3>1, <3>2 DEF Floor
  <2>4. CASE t # u
    <3>1. pc'[t] = pc[t] /\ job'[t] = job[t]
      BY <2>1, <2>4
    <3>2. Floor(t, k)
      BY <3>1 DEF FloorsHeld
    <3> QED  BY <2>1, <2>2, <3>1, <3>2 DEF Floor
  <2> QED  BY <2>3, <2>4
<1>4. CASE Crash
  BY <1>4 DEF Crash
<1>5. CASE UNCHANGED <<registry, locks, pc, job>> /\ revocations \subseteq revocations'
  BY <1>5 DEF FloorsHeld, Floor, Carried
<1> QED  BY <1>1, <1>2, <1>3, <1>4, <1>5
         DEF Next, Tick, LoadKey, OpenKeyFile, WriteKeyFile, GenerateKey, StartFails, Revoke,
             shared, threadVars, vars

-----------------------------------------------------------------------------
(* The strengthened invariant: types, whose lock is whose, the property    *)
(* key, the challenges handed out and the revocations on their way.        *)
THEOREM InvHolds == Spec => [](TInv /\ CInv /\ FloorsHeld)
<1>1. Init => TInv /\ CInv /\ FloorsHeld
  BY InitTInv, InitCInv DEF Init, FloorsHeld
<1>2. TInv /\ CInv /\ FloorsHeld /\ [Next]_vars => (TInv /\ CInv /\ FloorsHeld)'
  BY TInvInductive, OutstandingInductive, PresentedInductive, FloorsInductive DEF CInv
<1> QED  BY <1>1, <1>2, PTL DEF Spec

(* The process, its locks, its threads and what survives them stay well    *)
(* typed.                                                                  *)
THEOREM TypeCorrect == Spec => []TypeOK
BY InvHolds, PTL DEF TInv

(* Once the service has been up it comes up with the same property key     *)
(* ever after, wherever a start has died: load_or_create_property_key      *)
(* generates once.                                                         *)
THEOREM KeyKept == Spec => []RestartsKeepKey
<1>1. TInv => RestartsKeepKey
  BY DEF TInv, KeyInv, RestartsKeepKey
<1> QED  BY <1>1, InvHolds, PTL

(* A challenge that had opened a door when a presentation was sent opens   *)
(* nothing for that presentation, however many locks lock_for has built    *)
(* for the room and however often the process has restarted.               *)
THEOREM ReplayNeverGranted == Spec => []ReplayRefused
<1>1. TInv /\ CInv => ReplayRefused
  BY DEF CInv, Presented, ReplayRefused, Granted
<1> QED  BY <1>1, InvHolds, PTL

(* A door opens only on a challenge that this door handed out since the    *)
(* process started.                                                        *)
THEOREM OwnChallengeOnly == Spec => []OpensOwnChallenge
<1>1. TInv /\ CInv => OpensOwnChallenge
  BY DEF CInv, Presented, OpensOwnChallenge, Granted
<1> QED  BY <1>1, InvHolds, PTL

(* A key whose revocation was on the table, and on every list on its way,  *)
(* when an unlock came in does not pass, though another thread may replace *)
(* the lock or its snapshot between the request's sync and its decision.   *)
THEOREM RevokedNeverPass == Spec => []RevocationsHonoured
<1>1. FloorsHeld => RevocationsHonoured
  BY DEF FloorsHeld, Floor, RevocationsHonoured
<1> QED  BY <1>1, InvHolds, PTL
=============================================================================
