# StayKey: TLA+ specifications

StayKey issues short-lived digital room keys for hotel stays. A property signs a
credential for a stay's room and window; a phone presents it to an offline door
lock, which checks it against the property's public key and a synced revocation
list and makes the phone sign a fresh challenge. Around this, a SQLite store
assigns rooms without double booking, and checkout and room change revoke keys.
These modules model that core, check it with TLC and prove its main guarantees
with TLAPS.

## 1. The system

| Part | Source | State | Operations |
|---|---|---|---|
| challenge store | `antireplay.py` | pending and consumed nonces with times | issue (collects first), check, consume |
| credential | `credential.py`, `errors.py` | none | issue, parse, static verification, device sign / verify |
| offline lock | `lock.py` | property key, revocation snapshot, challenge store | sync, begin_unlock, finish_unlock |
| room assignment | `reservation.py` | tables `rooms`, `stays`, `assignments` | assign_room, change_room, in a `BEGIN IMMEDIATE` transaction |
| key issuance | `keys.py` | property key file, table `keys` | effective_window, issue_for_stay |
| key lifecycle | `lifecycle.py` | tables `keys`, `revocations`, `stays.status` | refresh_key, checkout, change_room |
| store | `db.py` | the SQLite file | one autocommitted statement per helper |
| lock registry | `app_state.py` | in-memory locks by room | lock_for, sync_lock, sync_all_locks |
| connected room | `connectedroom.py` | one challenge store for all rooms | begin_command, authorize (online) |
| HTTP API | `api.py`, `models.py` | none of its own | handlers, on a pool of threads |

How they interact: every API request runs on a thread with a connection of its
own. Handlers call `lifecycle`, `reservation` and `keys`, which run SQL statements
on that connection; only `reservation` uses a transaction. The lock handlers take a
lock from the registry, sync it with the `revocations` table and call it. The phone
sees only responses.

What is hard here: requests interleave between any two statements; a transaction
waits for the one write lock up to a timeout; a handler that dies leaves what its
earlier statements committed; the lock acts on a snapshot; nonces are forgotten by
age; and a stay's life (reserve, check in, refresh, move, check out, possibly
check in again) admits sequences that no test runs. `PROJECT.json` lists each
such hazard at its line, with the properties that would catch it.

What makes each part correct:
* challenge store and lock: a nonce opens at most once, replays are told apart, a
  denial leaves the nonce usable, only authorised presentations open;
* room assignment: no room for two overlapping stays, one room per stay, no room
  lost by a failing change, every request ends;
* lifecycle: keys stay within their stay, revoked keys are not active, keys that go
  out of use are revoked or superseded, a checked-out stay is out, checkouts end;
* registry: a replay is refused and a door opens only on its own challenges although
  locks are built twice, overtaken or lost in a restart; an unlock honours the
  revocations it came after; a restart keeps the property key;
* the whole: locks learn of the revocations of their room, neighbours in a room share
  its door only at the instant their stays touch, only the occupant controls a room.

## 2. Modules

| Module | Models |
|---|---|
| `AntiReplay` | the challenge store as a value; one operator per method |
| `Credential` | token contents, `evaluate_static` in the order of its returns, device responses; cryptography is perfect |
| `LockVerifier` | one lock, its clock, phones, syncs |
| `Reservation` | concurrent room assignment: threads, the write lock, busy timeout, checkout's UPDATE, crashes |
| `Lifecycle` | check-in, refresh, checkout, room change, one step per SQL statement |
| `BookingLedger` | what room assignment promises: indivisible bookings; `Reservation` implements it |
| `AppState` | the process: start-up and the property key file, the lock registry, the lock handlers on threads, deaths and restarts |
| `StayKey` | composition: the handlers of `Lifecycle` with their lock syncs, and the connected-room authorizer, on the same tables |
| `OneTimePass` | what the challenge store promises its owner: passes sent once and used once; `LockVerifier` and `StayKey` implement it |
| `LockVerifierProofs`, `ReservationProofs`, `LifecycleProofs`, `LifecycleAloneProofs`, `AppStateProofs`, `StayKeyProofs` | theorems |
| `MC*` | instances for TLC |

**State and actions.** Each module's variables carry the names of the tables or
attributes they stand for. In `LockVerifier`, `challenges` is `_challenges`, `revoked`
is `_revoked`; `issued` and `opened` are history. `finish_unlock` is two actions,
`Deny` (every denying return) and `Unlock`; the time it runs at is the clock or an
override, as `POST /lock/{id}/unlock` allows. A nonce is never issued twice and
nobody signs a nonce before it is issued.

In `Reservation`, a thread goes through `read` (the `get_stay` before the
transaction), `begin` (waiting for the lock), `select` (the search) and `commit` or
`rollback`. Statements inside the transaction write nothing that others see before
`COMMIT`, so their effect is applied there. Only active assignment rows are kept: no
query reads the others, and the one statement that would bring a row back
(`change_room`'s restore) is always rolled back. A room named in a request need only
exist in the property, as in the code; its type is not compared.

In `Lifecycle`, every autocommitted statement is a step: the status check, the
`SELECT` and the `UPDATE` of `deactivate_keys_for_stay`, each `revoke_key`, the
freeing of the room, the status update, the room-change transaction, the read of
`issue_for_stay` and the `INSERT` of the key. `Abort` ends a handler between two
statements (process death, or a statement that gives up waiting for the lock). A
room change may name any room, so it may end in any free room or fail. The stays
begin reserved, with the rooms `Reservation` gave them.

`BookingLedger` has two variables: what each stay asked for and the room it holds.
`Reservation` maps its table of stays to the first and the room of a stay's active row
to the second; a `COMMIT` is the ledger's `Take`, `add_stay` its `Ask`, checkout's UPDATE
its `Release`, and everything else stutters.

`OneTimePass` has the challenges sent, those still good for a use, and how often each was
used. The lock maps its `pending` dict to the second and its history to the others, the
authorizer likewise; the `consumed` dict, the times and the collector do not appear.

In `AppState`, a step is what a handler does up to its next access to something
shared: the registry, the revocations table, a lock's snapshot, a lock's challenge
store. So `lock_for` is a get, a build and a registration, `sync_lock` a read and a
write, and `finish_unlock` the static checks, the check of the challenge and the
consumption. A thread's `list` is what it has read of the revocations table, kept until its
request ends. `Lock` objects have identities, because two of them may be built for one
room; one that no thread and no registry slot refers to may be reused. The start of
the process takes the key from the environment or the file, or generates one, opens
the file and writes it; `Crash` may come after any of these. `floor`, `spent`,
`served`, `home` and `opened` are history; `home` is the door that handed a challenge out,
`Unsent` before that and `Lost` after a restart. `sync_all_locks` has no caller.

`StayKey` runs one request at a time: `Lifecycle`'s actions, extended with what the
handlers do besides. `due` is the list of rooms a handler has still to sync, `newer`
the order of the assignment rows' ids, `controls` the authorizer's challenge store;
`asked`, `applied`, `refused` and `skipped` are history. A handler that raises skips its
syncs. `authorize` is one action, for its success; its denials change nothing. Its check of
the challenge and its consumption are one step here, which one request at a time allows.

Definitions whose comment starts "Mutated form of" are variants of the definition
after them with a bug the code might have had; no specification uses them. Each
property is known to fail when its variant takes the definition's place.

## 3. Runs

Run from this directory: `tlc -config X.cfg M`.

| Run | Config | Shows |
|---|---|---|
| lock | `MCLockVerifier` | type invariant, `ChallengeHistory`, `SingleUse`, `ReplayDistinguished`, `PendingIsRecent`, `RetryPossible`, `OpeningsAuthorised`, and the refinement `ImplementsPass` |
| reservation | `MCReservation` | type invariant, `RequestDiscipline`, `NoDoubleBooking`, `ChoiceIsCurrent`, `StayHoldsOneRoom`, `RoomKeptUnlessFreed` |
| reservation_liveness | `MCReservationLive` | `RequestsFinish`, and the refinement `ImplementsLedger` |
| lifecycle_races | `MCLifecycleRaces` | two interleaved handlers, one of which may die: type invariant, `RevokedNotActive`, `CheckoutCompletes`, `SelectedKeysRevoked` |
| app_state | `MCAppState` | threads, restarts: type invariant, `ReplayRefused`, `OpensOwnChallenge`, `RevocationsHonoured`, `RestartsKeepKey` |
| staykey | `MCStayKey` | the composition: type invariant, `RevocationsSynced`, `NeighboursOnlyTouch`, `ControlByOccupant`, `KeylessOnlyAfterRefusal`; of the lifecycle, one request at a time, `KeysWithinStay`, `NoKeyForgotten`, `ActiveKeyMatchesRoom`, `CheckedOutIsOut`; and the refinement `ImplementsCommandPass` |

Six runs end in a counterexample, each against a sentence of the repository
(quoted under "findings" in `PROJECT.json`):

| Run | Config | What the code does |
|---|---|---|
| challenge_used_twice | `MCAppStateTwice` | two simultaneous presentations of one signed challenge both pass the check before either consumes it |
| occupant_refused | `MCStayKeyOccupant` | once a room is booked for a later stay, the guest in it may no longer control it: the newest active row counts, whatever its window |
| superseded_key | `MCLifecycleSuperseded` | check-in, refresh, checkout leaves the first key unrevoked and unexpired |
| return_after_checkout | `MCLifecycleReturn` | a check-in after checkout gets a key for the room given back |
| overtaken_refresh | `MCLifecycleOvertaken` | a refresh passes its status check, a whole checkout runs, and the refresh inserts an active key for the checked-out stay (`CheckedOutGetsNothing`); a room change overtaken in the same way gets a room as well |
| overtaken_sync | `MCAppStateOvertaken` | a slow `sync_lock` writes an old revocation list over the newer one that an unlock request has just synced, and that request opens the door for a key it knew to be revoked (`OwnSyncHonoured`) |

`CheckedOutIsOut` holds for one request at a time (`staykey`) and fails for two: the last
state of `overtaken_refresh` violates it, and a check-in overtaken in the same way, which
looks at no status at all, does too. `NoKeyForgotten` also fails for two, since a key
inserted between the SELECT and the UPDATE of `deactivate_keys_for_stay` is never revoked.
`UsableOnce` fails where `ReplayRefused` holds: only simultaneous presentations get
through, a later one never does.

`RevocationsHonoured` and `OwnSyncHonoured` are two halves of one question. The first
counts a revocation only if no older list was on its way to a lock when the unlock came
in, and holds; the second counts whatever the unlock itself has synced, and fails. With
one lock object the only way is the overtaken write; with more, a lock that was built
before the revocation and registered after the sync is another.

`RevocationsSynced` excepts the rooms of a handler that raised after it had revoked, and
`KeylessOnlyAfterRefusal` the guests it refused, because the code leaves them so; they
show that this is the only way there.

**Bounds and why they are enough.**
* Lock: two nonces, because every property relates at most two; TTL 1 and a clock to
  6, so that a nonce used at time 1 is forgotten (after 4 TTLs) and presented again;
  one token for each reason to deny, two devices, an overridden time in the middle.
  Nonces are interchangeable (symmetry). The clock and the supply of nonces are
  bounded, so the run may stop and deadlock is not checked.
* Reservation: two threads are enough for a lost update; three stays whose windows
  overlap (`[1,3)` and `[2,4)`) or touch (`[1,3)` and `[3,5)`), two rooms of the
  property, one of another, and a type that no room has. Liveness and
  the refinement use two threads, two rooms and two stays, without symmetry; requests
  go on for ever, so a waiting thread can be overtaken again and again. Deadlock
  is checked.
* Lifecycle: one stay with two rooms and two keys, one of each for each racing handler.
  With racing handlers the clock goes to 1 and the TTL is 1, so that a key for the stay
  `[1,4)` is refused at time 0 and issued at time 1. The supply of key ids is
  bounded, so handlers may stop there and deadlock is not checked.
* AppState: two threads; three lock identities, so that two threads can each hold a
  lock that has lost its slot to a third; two doors, one without a row in `rooms`; one
  key, one nonce with TTL 0 and a clock to 1, so that it expires; two property keys, so
  that a second one could be generated. Threads, locks and property keys are
  interchangeable. Deadlock is checked. `overtaken_sync` has one lock identity, which
  leaves out locks built twice.
* StayKey: two stays that touch (`[0,1)` and `[1,2)`), booked in either order in one
  room, and a second room to move to; TTL 1 and a clock to 1, so that the second
  stay's key is refused at time 0 and the first one's is cut short by its check-out; room
  changes and commands at the clock or at an overridden time 0; two keys, so that a
  superseded or revoked one and an active one exist together; one command challenge, of
  TTL 0, so that it expires. The properties about who may open or
  control a room look at every time up to the end of the stays, not only at the
  clock. The supply of key ids is bounded, so deadlock is not checked.

**Fairness.** Weak fairness of each thread's own steps: a running handler executes its
next statement. In `Reservation` this is enough because the wait in `BEGIN IMMEDIATE`
always ends, by the lock or by `busy_timeout`. Nothing is assumed about clients,
clocks, crashes or the arrival of requests.

## 4. Proofs

`tlapm` on `LockVerifierProofs`, `ReservationProofs`, `LifecycleProofs`,
`LifecycleAloneProofs`, `AppStateProofs` and `StayKeyProofs` checks every proof. Each
invariant and action property that a passing run checks is also a theorem.

**Lock** (any sets of nonces, tokens, devices, keys, any TTL, any clock). The named
properties are not inductive: that a nonce opens once depends on what the store
remembers of it. `ChallengeHistory` says how store and history agree, nonce by nonce:
issued no later than now; pending only until it opens, with the time it was issued;
opened at most once; and after that consumed at that very time or forgotten with more
than four lifetimes gone. With `TypeOK` it is inductive (`HistoryInductive`, one step per
action, resting on `IssueEntries` and `ConsumeEntries`, which say what `issue` and
`consume` do to each entry). From it follow `OpensOnce`, `ReplayReported`, `RetriesLeft`,
`PendingStaysRecent` and `OnlyAuthorisedOpenings`. Assumptions: the TTL and the
overrides are naturals, tokens carry integer times, a response no device made is
over no nonce.

`PassImplemented` shows that the lock implements `OneTimePass`: `begin_unlock` is `Send`,
which may drop what the collector drops (`BeginSends`), an unlock is `Use`
(`UnlockUses`), and nothing else touches a pass. The refinement needs only the types:
what the store remembers of used challenges serves to tell a replay from an unknown
challenge, not to refuse it.

**Room assignment** (any sets of threads, stays, rooms and windows, a crash anywhere).
`Inv` joins `TypeOK`, `RequestDiscipline`, `ChoiceIsCurrent`, `StayHoldsOneRoom` and
`NoDoubleBooking`. No double booking needs that a chosen room is still free at COMMIT
(`ChoiceIsCurrent`), which needs that only the holder of the write lock is inside a
transaction (`WriterHolds`); that a first assignment adds a row to a stay that has
none needs that the reserving request is alone at work on its stay
(`AssignsAlone`). Each part has a lemma of its own, and `CommitFacts` collects what a commit
may rely on. `NeverDoubleBooked`, `OneRoomPerStay`, `ChoiceStaysCurrent` and `RoomKept`
follow. Assumptions: room ids are positive, check-in is before check-out (both
validated in `models.py`), and the sentinels are not members of the sets.

`LedgerImplemented` shows the refinement. In the ledger a stay holds the room of its
active row, so the mapping is a function only because of `StayHoldsOneRoom`
(`HeldIsNamed`); that a commit is the ledger's `Take` (`CommitTakes`) is `CommitFacts` in the
ledger's words; reserving and freeing are `Ask` and `Release`, and what leaves stays
and assignments alone stutters.

**Lifecycle** (any number of handlers at once, each dying anywhere, any windows and
TTL). `RevokedNotActive` is not inductive: a handler revokes keys it selected two
statements earlier. `IInv` adds that the keys a thread has selected are rows of its own
stay, and inactive once it revokes them (`Selection`); that active and revoked keys have
rows, so that a fresh key is neither (`RowsExist`); and that a thread about to insert a
key has seen a room and a non-empty window (`AtWork`). `RowsStay` says that rows are
never changed, `OthersKeep` and `OwnStepKeeps` that neither the other threads nor its own
steps disturb what a thread knows. `RevokedStaysInactive`, `KeysStayWithin` and
`TypeCorrect` follow. Assumptions: room ids are positive, check-in is before check-out,
times are naturals.

**Lifecycle, one handler at a time** (any stays, rooms, windows and TTL). Three more
properties hold only when handlers come one after the other and do not die, as the run
`overtaken_refresh` shows for one of them. `Serving` is the next-state relation of such
handlers: a request begins only when every thread is idle. The theorems have it from
`OneAtATime`, a single thread that does not die (`SingleThreadServes`); `StayKey` has it
by its own guards (`StepsServe`). None of the three is inductive: each depends on how far
the handler has come. `AInv` joins them with `Alone` (one handler at work) and `Progress`: what
the handler has selected is all that is active, what it has deactivated stays so until it
issues a key, and the status it checked and the room it read still hold. `NoneForgotten`,
`KeysMatchRoom` and `CheckedOutStaysOut` follow, with `IInv` as the other half of the
induction.

**The process** (`AppStateProofs`: any sets of threads, doors, lock objects, keys and
challenges, deaths and restarts anywhere). The invariant has three parts.
* `TInv`: types; `KeyInv`, which follows the property key from the environment or from its
  generation through the empty file into use; `Placed`, that the registry lists a room's
  own lock; and `AtWork`, that a thread past `lock_for` has a lock of its own door, which
  stays so because a lock object in use is never built again. `KeyKept` follows.
* `CInv`: `Outstanding`, that a challenge is pending in one lock only, of the door it was
  handed out by, and has opened nothing; and `Presented`, that a thread about to open has a
  challenge no other lock takes and that was unused when its request came in. Neither
  survives without the other: between check and consume another thread may consume the same
  challenge (the run `challenge_used_twice`), but not one whose request came later. From it
  `ReplayNeverGranted` and `OwnChallengeOnly`.
* `FloorsHeld`: the revocations an unlock has to honour stay on the table and on every list
  under way (`Carried`), so whichever list reaches a lock last has them; and they reach in
  turn the lock the unlock syncs, the one it looks up again, which may be another, and the
  decision (`Floor`). From it `RevokedNeverPass`.

Assumptions: `KeyRoom` is a function into the rooms and the sentinels are distinct from what
they stand beside; the overrides are naturals.

**The service, one request at a time** (`StayKeyProofs`: any sets of stays, rooms, keys,
threads and nonces, any windows and TTLs). `SInv` joins the lifecycle's `IInv` and `AInv`,
which carry over because every step is a `Serving` step or leaves the lifecycle alone
(`LifecycleCarriesOver`), with
* `RoomsShared`: stays that hold the same room do not overlap. With keys that stay within
  their stay (`PassWithinStay`) it yields `NeighboursApart` and `OccupantControls`;
* `Keyed`: a checked-in guest without a key has been refused one or is being served; a
  handler deactivates keys of its own stay only (`KeylessRefused`);
* `WillSync`: the room whose keys a handler revokes is among those it will sync, which
  needs that active keys are for the stay's room; and `Informed`: a lock misses a
  revocation only while a sync is due or after one was skipped (`LocksInformed`).

`CommandPassImplemented` is the second refinement of `OneTimePass`, by `begin_command` and
`authorize`. Like everything about `StayKey` it is about one request at a time: that two
answers to one challenge at the same moment are not both carried out is not shown, and
not so, for `authorize` has the same gap between check and consume as the lock (run
`challenge_used_twice`). Assumptions, besides those of the lifecycle: the stays start out with rooms
in which they do not overlap, which is what `NeverDoubleBooked` shows of room assignment.

Only model-checked: the liveness properties `RequestsFinish`, `CheckoutCompletes` and
`SelectedKeysRevoked`, since fairness is out of the prover's reach.

## 5. Not modelled

Cryptography (a signature is who made it and over what), encodings, guests, health
and inventory reads, logging. `SQLITE_BUSY` inside an open transaction cannot occur once
the write lock is held and is left out. Two server processes on one data directory:
the registry and the start-up are those of one. Inside a call of the challenge store
threads do not switch in the model; the interpreter may let them, in the loop of `_gc`.
`authorize` does not interleave with itself or with other handlers. The benchmarks and the demo drive the library and have no state of their own; what
`bench/concurrency.py` samples, threads racing for rooms, is what `reservation` checks in
full and `ReservationProofs` proves.

## 6. Plan

1. Done: the lock with its store and the one-time pass, room assignment and its ledger,
   the lifecycle, the registry, the composition with the connected room, and proofs of
   every safety property that the passing runs check.
2. Left: `authorize` as separate steps on concurrent threads: its three reads against a
   checkout, and its check and consume against another answer.
