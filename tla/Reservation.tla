---------------------------- MODULE Reservation ----------------------------
(***************************************************************************)
(* Room assignment over the shared SQLite store (staykey/reservation.py    *)
(* with its callers in api.py and lifecycle.py).  Every request runs on a  *)
(* connection and a thread of its own.  A statement outside a transaction  *)
(* commits by itself and needs the one write lock; BEGIN IMMEDIATE takes   *)
(* that lock until COMMIT or ROLLBACK.  What a transaction writes nobody   *)
(* else sees before its COMMIT, so the writes of one are applied there.    *)
(*                                                                         *)
(* assignments holds the rows with active = 1, all that any query reads:   *)
(* the one statement that sets active back to 1, in change_room, is always *)
(* rolled back.                                                            *)
(***************************************************************************)
EXTENDS Integers

CONSTANTS Thread, NoThread,
          StayId,
          RoomId,       \* the room ids a request may name
          Inventory,    \* the room rows that POST /rooms may insert
          Booking,      \* what a stay may ask for: room_type, check_in, check_out
          NoBooking,
          Property      \* ctx().property_id

NoRoom == 0

ASSUME ReservationAssumption ==
  /\ NoThread \notin Thread
  /\ RoomId \subseteq Nat \ {NoRoom}
  /\ \A row \in Inventory : row.room_id \in RoomId
  /\ \A b \in Booking : /\ b.check_in \in Nat /\ b.check_out \in Nat
                        /\ b.check_in < b.check_out
  /\ NoBooking \notin Booking

VARIABLES rooms,        \* table rooms
          stays,        \* table stays: what each asked for
          stay_room,    \* table stays: room_id
          assignments,  \* table assignments: the active rows
          writer,       \* the holder of the write lock
          pc, job,      \* where each thread is, and with which request
          chosen        \* the local variable chosen of each thread

vars == <<rooms, stays, stay_room, assignments, writer, pc, job, chosen>>
tables == <<rooms, stays, stay_room, assignments>>

MaybeRoom == RoomId \cup {NoRoom}
Assignment == [room_id: RoomId, stay_id: StayId, check_in: Nat, check_out: Nat]
Job == [op: {"assign", "change"}, stay: StayId, want: MaybeRoom, old_room: MaybeRoom]
NoJob == [op |-> "none"]

TypeOK ==
  /\ rooms \subseteq Inventory
  /\ stays \in [StayId -> Booking \cup {NoBooking}]
  /\ stay_room \in [StayId -> MaybeRoom]
  /\ assignments \subseteq Assignment
  /\ writer \in Thread \cup {NoThread}
  /\ pc \in [Thread -> {"idle", "read", "begin", "select", "commit", "rollback"}]
  /\ job \in [Thread -> Job \cup {NoJob}]
  /\ chosen \in [Thread -> MaybeRoom]

Init == /\ rooms = {}
        /\ stays = [s \in StayId |-> NoBooking]
        /\ stay_room = [s \in StayId |-> NoRoom]
        /\ assignments = {}
        /\ writer = NoThread
        /\ pc = [t \in Thread |-> "idle"]
        /\ job = [t \in Thread |-> NoJob]
        /\ chosen = [t \in Thread |-> NoRoom]

-----------------------------------------------------------------------------
(* _has_overlap: half-open intervals. *)
Overlap(row, check_in, check_out) ==
  row.check_in < check_out /\ check_in < row.check_out
HasOverlap(rows, room, b) ==
  \E row \in rows : row.room_id = room /\ Overlap(row, b.check_in, b.check_out)

OwnRows(rows, s) == {row \in rows : row.stay_id = s}

(* The rows thread t's transaction sees: change_room has already retired   *)
(* the stay's own.                                                         *)
Visible(t) == IF job[t].op = "change"
              THEN assignments \ OwnRows(assignments, job[t].stay)
              ELSE assignments

(* A named room only has to exist in the property; otherwise every room of *)
(* the type is a candidate, except the one a change moves out of.          *)
Candidates(t) ==
  LET b == stays[job[t].stay]
      here == {row \in rooms : row.property_id = Property}
  IN  IF job[t].want # NoRoom
      THEN {row.room_id : row \in {r \in here : r.room_id = job[t].want}}
      ELSE {row.room_id : row \in {r \in here : r.room_type = b.room_type}}
             \ (IF job[t].op = "change" THEN {job[t].old_room} ELSE {})

FreeCandidates(t) ==
  {room \in Candidates(t) : ~HasOverlap(Visible(t), room, stays[job[t].stay])}

-----------------------------------------------------------------------------
(* add_room: one INSERT, refused on a taken primary key. *)
AddRoom(row) ==
  /\ writer = NoThread
  /\ \A r \in rooms : r.room_id # row.room_id
  /\ rooms' = rooms \cup {row}
  /\ UNCHANGED <<stays, stay_room, assignments, writer, pc, job, chosen>>

(* reserve up to add_stay: the stay's row is committed before any room is  *)
(* looked for, and stays there when none is found.                         *)
Reserve(t, s, b, want) ==
  /\ pc[t] = "idle" /\ writer = NoThread
  /\ stays[s] = NoBooking
  /\ stays' = [stays EXCEPT ![s] = b]
  /\ pc' = [pc EXCEPT ![t] = "read"]
  /\ job' = [job EXCEPT ![t] = [op |-> "assign", stay |-> s, want |-> want,
                                old_room |-> NoRoom]]
  /\ UNCHANGED <<rooms, stay_room, assignments, writer, chosen>>

(* A room change of a stay whose id its guest has learnt from reserve. *)
ChangeRoom(t, s, want) ==
  /\ pc[t] = "idle"
  /\ stay_room[s] # NoRoom
  /\ pc' = [pc EXCEPT ![t] = "read"]
  /\ job' = [job EXCEPT ![t] = [op |-> "change", stay |-> s, want |-> want,
                                old_room |-> NoRoom]]
  /\ UNCHANGED <<tables, writer, chosen>>

(* get_stay, before the transaction: assign_room returns at once when the  *)
(* stay has a room, change_room remembers the room to move out of.         *)
ReadStay(t) ==
  LET room == stay_room[job[t].stay]
      done == job[t].op = "assign" /\ room # NoRoom
  IN  /\ pc[t] = "read"
      /\ pc' = [pc EXCEPT ![t] = IF done THEN "idle" ELSE "begin"]
      /\ job' = [job EXCEPT ![t] = IF done THEN NoJob ELSE [@ EXCEPT !.old_room = room]]
      /\ UNCHANGED <<tables, writer, chosen>>

(* Mutated form of Begin: a deferred BEGIN, which takes no lock. *)
BeginDeferred(t) ==
  /\ pc[t] = "begin"
  /\ pc' = [pc EXCEPT ![t] = "select"]
  /\ UNCHANGED <<tables, writer, job, chosen>>

(* BEGIN IMMEDIATE. *)
Begin(t) ==
  /\ pc[t] = "begin"
  /\ writer = NoThread
  /\ writer' = t
  /\ pc' = [pc EXCEPT ![t] = "select"]
  /\ UNCHANGED <<tables, job, chosen>>

(* Mutated form of Busy: wait for the lock without a limit. *)
BusyForever(t) == pc[t] = "begin" /\ writer # NoThread /\ UNCHANGED vars

(* busy_timeout runs out before the lock is free: BEGIN raises, and so     *)
(* does the ROLLBACK in the handler, for no transaction is open.           *)
Busy(t) ==
  /\ pc[t] = "begin"
  /\ writer # NoThread
  /\ pc' = [pc EXCEPT ![t] = "idle"]
  /\ job' = [job EXCEPT ![t] = NoJob]
  /\ UNCHANGED <<tables, writer, chosen>>

(* Mutated form of Select: "chosen is None" is not checked. *)
SelectUnchecked(t) ==
  /\ pc[t] = "select"
  /\ chosen' = [chosen EXCEPT ![t] =
       IF FreeCandidates(t) = {} THEN NoRoom ELSE CHOOSE r \in FreeCandidates(t) : TRUE]
  /\ pc' = [pc EXCEPT ![t] = "commit"]
  /\ UNCHANGED <<tables, writer, job>>

(* The search: the candidate with the least room_id that is free, or       *)
(* RoomUnavailableError when there is none.                                *)
Select(t) ==
  /\ pc[t] = "select"
  /\ \/ \E room \in FreeCandidates(t) :
          /\ \A other \in FreeCandidates(t) : room <= other
          /\ chosen' = [chosen EXCEPT ![t] = room]
          /\ pc' = [pc EXCEPT ![t] = "commit"]
     \/ /\ FreeCandidates(t) = {}
        /\ pc' = [pc EXCEPT ![t] = "rollback"]
        /\ UNCHANGED chosen
  /\ UNCHANGED <<tables, writer, job>>

Finish(t) == /\ writer' = NoThread
             /\ pc' = [pc EXCEPT ![t] = "idle"]
             /\ job' = [job EXCEPT ![t] = NoJob]
             /\ chosen' = [chosen EXCEPT ![t] = NoRoom]

(* Mutated form of Commit: the old assignment is never retired. *)
CommitWithoutRetire(t) ==
  LET s == job[t].stay
      b == stays[s]
  IN  /\ pc[t] = "commit"
      /\ assignments' = assignments \cup
           {[room_id |-> chosen[t], stay_id |-> s,
             check_in |-> b.check_in, check_out |-> b.check_out]}
      /\ stay_room' = [stay_room EXCEPT ![s] = chosen[t]]
      /\ Finish(t)
      /\ UNCHANGED <<rooms, stays>>

(* INSERT INTO assignments, set_stay_room and COMMIT. *)
Commit(t) ==
  LET s == job[t].stay
      b == stays[s]
  IN  /\ pc[t] = "commit"
      /\ assignments' = Visible(t) \cup
           {[room_id |-> chosen[t], stay_id |-> s,
             check_in |-> b.check_in, check_out |-> b.check_out]}
      /\ stay_room' = [stay_room EXCEPT ![s] = chosen[t]]
      /\ Finish(t)
      /\ UNCHANGED <<rooms, stays>>

(* Mutated form of Rollback: the retired assignment is not restored. *)
RollbackRetired(t) ==
  /\ pc[t] = "rollback"
  /\ Finish(t)
  /\ assignments' = Visible(t)
  /\ UNCHANGED <<rooms, stays, stay_room>>

(* ROLLBACK: the room change restores the assignment it had retired. *)
Rollback(t) ==
  /\ pc[t] = "rollback"
  /\ Finish(t)
  /\ UNCHANGED tables

(* checkout's UPDATE of assignments, committed by itself. *)
FreeRoom(s) ==
  /\ writer = NoThread
  /\ stay_room[s] # NoRoom
  /\ assignments' = assignments \ OwnRows(assignments, s)
  /\ UNCHANGED <<rooms, stays, stay_room, writer, pc, job, chosen>>

(* The server process dies: its threads, and with them their transactions, *)
(* are gone.                                                               *)
Crash ==
  /\ writer' = NoThread
  /\ pc' = [t \in Thread |-> "idle"]
  /\ job' = [t \in Thread |-> NoJob]
  /\ chosen' = [t \in Thread |-> NoRoom]
  /\ UNCHANGED tables

Step(t) == ReadStay(t) \/ Begin(t) \/ Busy(t) \/ Select(t) \/ Commit(t) \/ Rollback(t)

Next == \/ \E row \in Inventory : AddRoom(row)
        \/ \E t \in Thread, s \in StayId, want \in MaybeRoom :
             \/ \E b \in Booking : Reserve(t, s, b, want)
             \/ ChangeRoom(t, s, want)
        \/ \E t \in Thread : Step(t)
        \/ \E s \in StayId : FreeRoom(s)
        \/ Crash

(* Fairness: a request that can go on does; the waiting in BEGIN ends by   *)
(* the lock or by the timeout.                                             *)
Spec == Init /\ [][Next]_vars /\ \A t \in Thread : WF_vars(Step(t))

-----------------------------------------------------------------------------
InTransaction == {"select", "commit", "rollback"}
WriterHolds == \A t \in Thread : writer = t <=> pc[t] \in InTransaction
RequestsKnown ==
  /\ \A t \in Thread : pc[t] # "idle" =>
       job[t] \in Job /\ stays[job[t].stay] # NoBooking
  /\ \A s \in StayId : stay_room[s] # NoRoom => stays[s] # NoBooking
AssignsAlone ==
  \A t \in Thread : pc[t] # "idle" /\ job[t].op = "assign" =>
    /\ stay_room[job[t].stay] = NoRoom
    /\ \A u \in Thread \ {t} : pc[u] # "idle" => job[u].stay # job[t].stay

(* What the threads rely on: at most one is inside a transaction, the one  *)
(* that holds the write lock; every request is for a stay that exists; and *)
(* the request that is assigning a stay its first room is the only one at  *)
(* work on that stay (reserve answers with the stay's id last).            *)
RequestDiscipline == WriterHolds /\ RequestsKnown /\ AssignsAlone

(* No room is assigned to two stays whose half-open windows intersect,     *)
(* however their requests interleave (reservation.py, "A room is never     *)
(* assigned to two overlapping stays").                                    *)
NoDoubleBooking ==
  \A p, q \in assignments :
    p.room_id = q.room_id /\ p.stay_id # q.stay_id
      => ~Overlap(p, q.check_in, q.check_out)

(* What a transaction has found out is still so when it ends: the chosen   *)
(* room is still free, or still no candidate is (the write lock held from  *)
(* BEGIN IMMEDIATE on).                                                    *)
ChoiceIsCurrent ==
  \A t \in Thread :
    /\ pc[t] = "commit" => chosen[t] \in FreeCandidates(t)
    /\ pc[t] = "rollback" => FreeCandidates(t) = {}

(* A stay holds at most one room, the one its row names, for the window it *)
(* asked for, also when room changes of one stay race with each other and  *)
(* with its checkout (change_room retires before it inserts).              *)
StayHoldsOneRoom ==
  \A p \in assignments :
    /\ p.room_id = stay_room[p.stay_id]
    /\ \A q \in OwnRows(assignments, p.stay_id) : q = p
    /\ stays[p.stay_id] # NoBooking
    /\ p.check_in = stays[p.stay_id].check_in
    /\ p.check_out = stays[p.stay_id].check_out

KeepsRoom(s) ==
  OwnRows(assignments, s) # {} =>
    OwnRows(assignments', s) # {} \/ FreeRoom(s)

(* Only a checkout takes a stay's room away: a room change that fails, or  *)
(* dies on the way, leaves the guest in the old room (change_room,         *)
(* "restore the old assignment and fail").                                 *)
RoomKeptUnlessFreed == [][\A s \in StayId : KeepsRoom(s)]_vars

(* The room of a stay's active row. *)
RoomHeld(s) ==
  IF OwnRows(assignments, s) = {} THEN NoRoom
  ELSE (CHOOSE row \in OwnRows(assignments, s) : TRUE).room_id

Ledger == INSTANCE BookingLedger
  WITH Stay <- StayId, Room <- RoomId, Span <- Booking, NoSpan <- NoBooking,
       wanted <- stays, held <- [s \in StayId |-> RoomHeld(s)]

(* Searches, transactions, timeouts, roll-backs and crashes add up to      *)
(* indivisible bookings: whatever the threads do, the tables only ever     *)
(* change as the ledger's do (BEGIN IMMEDIATE in assign_room and           *)
(* change_room).                                                           *)
ImplementsLedger == Ledger!Spec

(* Every request ends, whoever holds the write lock (busy_timeout).        *)
RequestsFinish == \A t \in Thread : pc[t] # "idle" ~> pc[t] = "idle"
=============================================================================
