------------------------------ MODULE AppState ------------------------------
(***************************************************************************)
(* The server process (staykey/app_state.py) around its door locks: the    *)
(* property key it loads or creates when it starts, the registry of        *)
(* in-memory locks, and the handlers in api.py that reach a lock through   *)
(* it.  FastAPI runs every handler on a thread of a pool, nothing guards   *)
(* the registry or a lock, and the process may die at any moment; what     *)
(* survives is the key file and the revocations table.                     *)
(*                                                                         *)
(* A step is what a handler does up to its next access to shared state:    *)
(* the registry, the revocations table, a lock's snapshot, a lock's        *)
(* challenge store.  A request's token, challenge and response are chosen  *)
(* at the step that first looks at them.                                   *)
(***************************************************************************)
EXTENDS AntiReplay, Credential

CONSTANTS Thread, RoomId,
          RoomRow,      \* [RoomId -> property_id of the row in rooms, or NoRow]
          NoRow,
          AppProperty,  \* self.property_id
          LockId,       \* identities of LockVerifier objects
          NoLock,
          KeyId,
          KeyRoom,      \* [KeyId -> the room each key was issued for]
          PropertyKey,  \* what Ed25519PrivateKey.generate can return
          NoSK,         \* no key: not in the environment, on file or loaded
          BrokenPEM,    \* a key file that was opened and never written
          Device,       \* who may sign a response; a key's device has the key's name
          Unsent, Lost, \* no door for a challenge: not handed out yet, or not any more
          Override,     \* values of the request's optional now
          MaxTime       \* bound of the clock

ASSUME AppAssumption ==
  /\ KeyRoom \in [KeyId -> RoomId]
  /\ NoLock \notin LockId /\ NoSK \notin PropertyKey
  /\ BrokenPEM \notin PropertyKey \cup {NoSK}
  /\ Unsent # Lost /\ {Unsent, Lost} \cap RoomId = {}
  /\ Override \subseteq Nat /\ MaxTime \in Nat

VARIABLES clock,
          env, pem,     \* the key in the environment and the key file
          proc, sk,     \* what the process is doing, self.property_sk
          registry,     \* self._locks
          locks,        \* the LockVerifier objects
          revocations,  \* table revocations
          pc, job,      \* where each thread is, and its local variables
          served,       \* history: the keys the service has been up with
          home,         \* history: the door that each live challenge is for
          opened        \* history: how often each challenge opened a door

keyVars == <<env, pem, proc, sk, served>>
threadVars == <<pc, job>>
vars == <<clock, keyVars, registry, locks, revocations, threadVars, home, opened>>

NoJob == [op |-> "none"]
Lock == [room: RoomId, revoked: SUBSET KeyId, challenges: ChallengeStore]
Job == [op: {"challenge", "unlock", "sync"}, room: RoomId, synced: BOOLEAN,
        lock: LockId \cup {NoLock}, list: SUBSET KeyId, floor: SUBSET KeyId,
        spent: SUBSET Challenge, now: Nat, key: KeyId \cup {NoSK},
        challenge: Challenge \cup {NoSK}]

TypeOK ==
  /\ clock \in Nat
  /\ env \in PropertyKey \cup {NoSK}
  /\ pem \in PropertyKey \cup {NoSK, BrokenPEM}
  /\ proc \in {"down", "creating", "writing", "up"}
  /\ sk \in PropertyKey \cup {NoSK}
  /\ served \subseteq PropertyKey
  /\ registry \in [RoomId -> LockId \cup {NoLock}]
  /\ locks \in [LockId -> Lock \cup {NoJob}]
  /\ revocations \subseteq KeyId
  /\ pc \in [Thread -> {"idle", "get", "build", "register", "list", "write",
                        "issue", "static", "check", "consume"}]
  /\ job \in [Thread -> Job \cup {NoJob}]
  /\ home \in [Challenge -> RoomId \cup {Unsent, Lost}]
  /\ opened \in [Challenge -> Nat]

Init ==
  /\ clock = 0
  /\ env \in PropertyKey \cup {NoSK}
  /\ pem = NoSK /\ proc = "down" /\ sk = NoSK /\ served = {}
  /\ registry = [r \in RoomId |-> NoLock]
  /\ locks = [l \in LockId |-> NoJob]
  /\ revocations = {}
  /\ pc = [t \in Thread |-> "idle"]
  /\ job = [t \in Thread |-> NoJob]
  /\ home = [c \in Challenge |-> Unsent]
  /\ opened = [c \in Challenge |-> 0]

Tick == /\ clock < MaxTime
        /\ clock' = clock + 1
        /\ UNCHANGED <<keyVars, registry, locks, revocations, threadVars, home, opened>>

-----------------------------------------------------------------------------
(* The start of the process: load_or_create_property_key, then init_db.    *)
shared == <<clock, registry, locks, revocations, threadVars, home, opened>>

Serve(key) == proc' = "up" /\ sk' = key /\ served' = served \cup {key}

(* The environment takes precedence; then the file, if it exists. *)
LoadKey ==
  /\ proc = "down"
  /\ IF env # NoSK THEN Serve(env) ELSE pem \in PropertyKey /\ Serve(pem)
  /\ UNCHANGED <<env, pem, shared>>

(* Mutated form of GenerateKey: the file is not looked at. *)
GenerateAlways(key) ==
  /\ proc = "down" /\ env = NoSK /\ key \notin served
  /\ proc' = "creating" /\ sk' = key
  /\ UNCHANGED <<env, pem, served, shared>>

(* Neither: a fresh key is generated. *)
GenerateKey(key) ==
  /\ proc = "down" /\ env = NoSK /\ pem = NoSK /\ key \notin served
  /\ proc' = "creating" /\ sk' = key
  /\ UNCHANGED <<env, pem, served, shared>>

(* write_bytes opens the file, empty, and then writes it. *)
OpenKeyFile ==
  /\ proc = "creating"
  /\ proc' = "writing" /\ pem' = BrokenPEM
  /\ UNCHANGED <<env, sk, served, shared>>

(* Mutated form of WriteKeyFile: what is served is what is on file before. *)
ServeUnwritten ==
  /\ proc = "writing"
  /\ Serve(pem) /\ pem' = sk
  /\ UNCHANGED <<env, shared>>

WriteKeyFile ==
  /\ proc = "writing"
  /\ Serve(sk) /\ pem' = sk
  /\ UNCHANGED <<env, shared>>

(* load_pem_private_key raises on a file that was never written. *)
StartFails ==
  /\ proc = "down" /\ env = NoSK /\ pem = BrokenPEM
  /\ UNCHANGED vars

(* The process dies, and with it every lock, challenge and request. *)
Crash ==
  /\ proc # "down"
  /\ proc' = "down" /\ sk' = NoSK
  /\ registry' = [r \in RoomId |-> NoLock]
  /\ locks' = [l \in LockId |-> NoJob]
  /\ pc' = [t \in Thread |-> "idle"]
  /\ job' = [t \in Thread |-> NoJob]
  /\ home' = [c \in Challenge |-> IF home[c] = Unsent THEN Unsent ELSE Lost]
  /\ UNCHANGED <<clock, env, pem, served, revocations, opened>>

-----------------------------------------------------------------------------
(* checkout and room_change of lifecycle.py commit a revocation. *)
Revoke(k) ==
  /\ proc = "up"
  /\ revocations' = revocations \cup {k}
  /\ UNCHANGED <<clock, keyVars, registry, locks, threadVars, home, opened>>

(* The revocation lists read from the table that have yet to reach a lock  *)
(* in use: one about to be written, one in a lock about to be registered.  *)
OnTheWay == {job[u].list : u \in {v \in Thread : pc[v] = "write"}}
            \cup {locks[job[u].lock].revoked : u \in {v \in Thread : pc[v] = "register"}}

(* A request comes in.  floor and spent are history, for unlocks: what is  *)
(* revoked, and what has opened a door, by then.                           *)
Begin(t, op, room, at, synced) ==
  /\ proc = "up" /\ pc[t] = "idle"
  /\ pc' = [pc EXCEPT ![t] = at]
  /\ job' = [job EXCEPT ![t] =
       [op |-> op, room |-> room, synced |-> synced, lock |-> NoLock, list |-> {},
        floor |-> {k \in revocations : op = "unlock" /\ \A list \in OnTheWay : k \in list},
        spent |-> {c \in Challenge : op = "unlock" /\ opened[c] > 0},
        now |-> 0, key |-> NoSK, challenge |-> NoSK]]
  /\ UNCHANGED <<clock, keyVars, registry, locks, revocations, home, opened>>

Goto(t, at) == pc' = [pc EXCEPT ![t] = at]
Done(t) == pc' = [pc EXCEPT ![t] = "idle"] /\ job' = [job EXCEPT ![t] = NoJob]

(* POST /lock/{room}/challenge: lock_for, then begin_unlock. *)
LockChallenge(t, room) == Begin(t, "challenge", room, "get", FALSE)

(* Mutated form of LockUnlock: without its sync_lock. *)
UnlockUnsynced(t, room) == Begin(t, "unlock", room, "get", TRUE)

(* POST /lock/{room}/unlock: sync_lock, lock_for again, finish_unlock. *)
LockUnlock(t, room) == Begin(t, "unlock", room, "get", FALSE)

(* The sync_lock at the end of the checkout and room-change handlers. *)
SyncLock(t, room) == Begin(t, "sync", room, "get", FALSE)

(* Where a handler goes once lock_for has returned. *)
WithLock(t) == IF job[t].op = "challenge" THEN "issue"
               ELSE IF job[t].synced THEN "static" ELSE "list"

(* Mutated form of GetLock: the first lock of any room. *)
GetAnyLock(t) ==
  LET known == {registry[r] : r \in RoomId} \ {NoLock}
  IN  /\ pc[t] = "get"
      /\ IF known = {} THEN Goto(t, "build") /\ UNCHANGED job
         ELSE Goto(t, WithLock(t)) /\ \E l \in known : job' = [job EXCEPT ![t].lock = l]
      /\ UNCHANGED <<clock, keyVars, registry, locks, revocations, home, opened>>

(* lock_for: self._locks.get(room_id). *)
GetLock(t) ==
  LET l == registry[job[t].room]
  IN  /\ pc[t] = "get"
      /\ Goto(t, IF l = NoLock THEN "build" ELSE WithLock(t))
      /\ job' = [job EXCEPT ![t].lock = l]
      /\ UNCHANGED <<clock, keyVars, registry, locks, revocations, home, opened>>

InUse == {registry[r] : r \in RoomId}
         \cup {job[u].lock : u \in {v \in Thread : job[v] # NoJob}}

(* lock_for: a new LockVerifier, seeded with the revocation list. *)
BuildLock(t, l) ==
  /\ pc[t] = "build" /\ l \notin InUse
  /\ locks' = [locks EXCEPT ![l] = [room |-> job[t].room, revoked |-> revocations,
                                    challenges |-> NewStore]]
  /\ Goto(t, "register")
  /\ job' = [job EXCEPT ![t].lock = l]
  /\ UNCHANGED <<clock, keyVars, registry, revocations, home, opened>>

(* lock_for: self._locks[room_id] = lock, whatever is there by now. *)
RegisterLock(t) ==
  /\ pc[t] = "register"
  /\ registry' = [registry EXCEPT ![job[t].room] = job[t].lock]
  /\ Goto(t, WithLock(t))
  /\ UNCHANGED <<clock, keyVars, locks, revocations, job, home, opened>>

(* sync_lock: revocation_list. *)
ReadList(t) ==
  /\ pc[t] = "list"
  /\ job' = [job EXCEPT ![t].list = revocations]
  /\ Goto(t, "write")
  /\ UNCHANGED <<clock, keyVars, registry, locks, revocations, home, opened>>

(* sync_lock: sync_revocations replaces the snapshot.  An unlock looks the *)
(* lock up once more.                                                      *)
WriteSnapshot(t) ==
  /\ pc[t] = "write"
  /\ locks' = [locks EXCEPT ![job[t].lock].revoked = job[t].list]
  /\ IF job[t].op = "sync" THEN Done(t)
     ELSE Goto(t, "get") /\ job' = [job EXCEPT ![t].synced = TRUE]
  /\ UNCHANGED <<clock, keyVars, registry, revocations, home, opened>>

(* begin_unlock, with a nonce that nobody has had before. *)
BeginUnlock(t, c) ==
  /\ pc[t] = "issue" /\ home[c] = Unsent
  /\ locks' = [locks EXCEPT ![job[t].lock].challenges = Issue(@, c, clock)]
  /\ home' = [home EXCEPT ![c] = job[t].room]
  /\ Done(t)
  /\ UNCHANGED <<clock, keyVars, registry, revocations, opened>>

PropertyOf(room) == IF RoomRow[room] = NoRow THEN AppProperty ELSE RoomRow[room]
TokenOf(k, signer) ==
  CredentialOf(signer, k, "stay", AppProperty, {KeyRoom[k]}, 0, MaxTime, k)

(* finish_unlock: the static checks of a token that the service has        *)
(* issued, against the lock's own snapshot, at a time fixed for the call.  *)
CheckToken(t, k, signer, now) ==
  LET lock == locks[job[t].lock]
      static == EvaluateStatic(TokenOf(k, signer), sk, PropertyOf(lock.room), lock.room,
                               now, lock.revoked)
  IN  /\ pc[t] = "static" /\ signer \in served
      /\ IF static # "pass" THEN Done(t)
         ELSE Goto(t, "check") /\ job' = [job EXCEPT ![t].key = k, ![t].now = now]
      /\ UNCHANGED <<clock, keyVars, registry, locks, revocations, home, opened>>

(* finish_unlock: the challenge and the answer to it. *)
CheckChallenge(t, c, device) ==
  LET granted == /\ Check(locks[job[t].lock].challenges, c, job[t].now) = "ok"
                 /\ VerifyDeviceResponse(job[t].key, c, DeviceSign(device, c))
  IN  /\ pc[t] = "check"
      /\ IF granted THEN Goto(t, "consume") /\ job' = [job EXCEPT ![t].challenge = c]
         ELSE Done(t)
      /\ UNCHANGED <<clock, keyVars, registry, locks, revocations, home, opened>>

(* Mutated form of ConsumeChallenge: the challenge stays pending. *)
OpenOnly(t) ==
  /\ pc[t] = "consume"
  /\ opened' = [opened EXCEPT ![job[t].challenge] = @ + 1]
  /\ Done(t)
  /\ UNCHANGED <<clock, keyVars, registry, locks, revocations, home>>

(* finish_unlock: consume, and the door opens. *)
ConsumeChallenge(t) ==
  /\ pc[t] = "consume"
  /\ locks' = [locks EXCEPT ![job[t].lock].challenges =
                              Consume(@, job[t].challenge, job[t].now)]
  /\ opened' = [opened EXCEPT ![job[t].challenge] = @ + 1]
  /\ Done(t)
  /\ UNCHANGED <<clock, keyVars, registry, revocations, home>>

Step(t) ==
  \/ GetLock(t) \/ RegisterLock(t) \/ ReadList(t) \/ WriteSnapshot(t) \/ ConsumeChallenge(t)
  \/ \E l \in LockId : BuildLock(t, l)
  \/ \E c \in Challenge : BeginUnlock(t, c)
  \/ \E k \in KeyId, signer \in PropertyKey, now \in {clock} \cup Override :
       CheckToken(t, k, signer, now)
  \/ \E c \in Challenge, device \in Device : CheckChallenge(t, c, device)

Request(t, room) == LockChallenge(t, room) \/ LockUnlock(t, room) \/ SyncLock(t, room)

Next ==
  \/ Tick \/ LoadKey \/ OpenKeyFile \/ WriteKeyFile \/ StartFails \/ Crash
  \/ \E key \in PropertyKey : GenerateKey(key)
  \/ \E k \in KeyId : Revoke(k)
  \/ \E t \in Thread : Step(t) \/ \E room \in RoomId : Request(t, room)

Spec == Init /\ [][Next]_vars

-----------------------------------------------------------------------------
(* Past every check of finish_unlock: the door opens with the next step. *)
Granted(t) == pc[t] = "consume"

(* A presentation that was sent after a challenge had opened a door is not *)
(* granted on that challenge, whichever of the room's locks it meets, and  *)
(* also after a restart has emptied the stores (consume before UNLOCK, and *)
(* no store shared or inherited).                                          *)
ReplayRefused == \A t \in Thread : Granted(t) => job[t].challenge \notin job[t].spent

(* A door opens only on a challenge that this very door handed out, and    *)
(* that no restart has come after ("lock generates a fresh single-use      *)
(* random challenge", lock.py), though two first requests may build two    *)
(* locks for one room.                                                     *)
OpensOwnChallenge == \A t \in Thread : Granted(t) => home[job[t].challenge] = job[t].room

(* A key that had been revoked when an unlock request came in, and that is *)
(* on every revocation list then on its way to a lock, does not pass the   *)
(* checks: the request's own sync reaches the lock that decides, or a      *)
(* newer one does (api.py, "ensure lock has latest synced revocations").   *)
(* A list still on its way may be older than the revocation and undo it:   *)
(* that is OwnSyncHonoured, which fails.                                   *)
RevocationsHonoured ==
  \A t \in Thread : pc[t] \in {"check", "consume"} => job[t].key \notin job[t].floor

(* Once the service has been up it comes up with the same property key     *)
(* ever after, and the file that says so is never lost: keys issued before *)
(* a restart still verify, wherever the earlier starts have died (keys.py, *)
(* "It is generated once").                                                *)
RestartsKeepKey ==
  /\ \A k, m \in served : k = m
  /\ proc = "up" => sk \in served
  /\ env = NoSK /\ served # {} => pem \in served

(* A challenge opens a door at most once ("usable exactly once",           *)
(* antireplay.py).                                                         *)
UsableOnce == \A c \in Challenge : opened[c] <= 1

(* A door does not open for a key that is on the revocation list which the *)
(* unlock request itself has synced to the lock: the sync is there to      *)
(* "ensure lock has latest synced revocations" (api.py, lock_unlock).      *)
OwnSyncHonoured == \A t \in Thread : Granted(t) => job[t].key \notin job[t].list
=============================================================================
