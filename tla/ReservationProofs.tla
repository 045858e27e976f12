------------------------- MODULE ReservationProofs -------------------------
(***************************************************************************)
(* No double booking, for any number of threads, stays, rooms and windows. *)
(* The invariant is inductive only together with what the write lock gives *)
(* each transaction (ChoiceIsCurrent) and with the discipline of requests. *)
(***************************************************************************)
EXTENDS Reservation, TLAPS

Inv == /\ TypeOK
       /\ RequestDiscipline
       /\ ChoiceIsCurrent
       /\ StayHoldsOneRoom
       /\ NoDoubleBooking

(* The candidates of a search are rooms of the inventory. *)
LEMMA CandidatesAreRooms ==
  ASSUME TypeOK, NEW t \in Thread
  PROVE  FreeCandidates(t) \subseteq RoomId
<1>1. Candidates(t) \subseteq RoomId
  BY ReservationAssumption DEF Candidates, TypeOK
<1> QED  BY <1>1 DEF FreeCandidates

(* A transaction's view, and so its candidates, depend only on the tables  *)
(* and on its own request.                                                 *)
LEMMA ViewUnchanged ==
  ASSUME NEW t \in Thread, UNCHANGED tables, job'[t] = job[t]
  PROVE  FreeCandidates(t)' = FreeCandidates(t)
BY DEF tables, FreeCandidates, Candidates, Visible, HasOverlap, Overlap, OwnRows

(* Two windows overlap or not whichever comes first. *)
LEMMA OverlapSymmetric ==
  ASSUME NEW p \in Assignment, NEW q \in Assignment
  PROVE  Overlap(p, q.check_in, q.check_out) <=> Overlap(q, p.check_in, p.check_out)
BY DEF Overlap, Assignment

-----------------------------------------------------------------------------
LEMMA InitInv == Init => Inv
<1> SUFFICES ASSUME Init PROVE Inv
  OBVIOUS
<1>1. TypeOK
  BY DEF Init, TypeOK, MaybeRoom
<1>2. RequestDiscipline
  BY ReservationAssumption
     DEF Init, RequestDiscipline, WriterHolds, RequestsKnown, AssignsAlone, InTransaction
<1>3. ChoiceIsCurrent /\ StayHoldsOneRoom /\ NoDoubleBooking
  BY DEF Init, ChoiceIsCurrent, StayHoldsOneRoom, NoDoubleBooking
<1> QED  BY <1>1, <1>2, <1>3 DEF Inv

(* The row a Commit inserts is well typed, of a stay that exists, and      *)
(* clashes with no row that stays.                                         *)
NewRow(t) == [room_id |-> chosen[t], stay_id |-> job[t].stay,
              check_in |-> stays[job[t].stay].check_in,
              check_out |-> stays[job[t].stay].check_out]

LEMMA CommitFacts ==
  ASSUME Inv, NEW t \in Thread, Commit(t)
  PROVE  /\ job[t] \in Job /\ stays[job[t].stay] \in Booking
         /\ chosen[t] \in RoomId
         /\ NewRow(t) \in Assignment
         /\ assignments' = Visible(t) \cup {NewRow(t)}
         /\ \A row \in Visible(t) : row \in assignments /\ row.stay_id # job[t].stay
         /\ \A row \in Visible(t) : row.room_id = chosen[t] =>
              ~Overlap(row, NewRow(t).check_in, NewRow(t).check_out)
<1>1. pc[t] = "commit"
  BY DEF Commit
<1>2. job[t] \in Job /\ stays[job[t].stay] \in Booking
  BY <1>1 DEF Inv, TypeOK, RequestDiscipline, RequestsKnown, Job
<1>3. chosen[t] \in FreeCandidates(t)
  BY <1>1 DEF Inv, ChoiceIsCurrent
<1>4. chosen[t] \in RoomId
  BY <1>3, CandidatesAreRooms DEF Inv
<1>5. NewRow(t) \in Assignment
  BY <1>2, <1>4, ReservationAssumption DEF NewRow, Assignment, Job
<1>6. assignments' = Visible(t) \cup {NewRow(t)}
  BY DEF Commit, NewRow
<1>7. ASSUME NEW row \in Visible(t) PROVE row \in assignments /\ row.stay_id # job[t].stay
  <2>1. CASE job[t].op = "change"
    BY <1>7, <2>1 DEF Visible, OwnRows
  <2>2. CASE job[t].op # "change"
    <3>1. job[t].op = "assign"
      BY <1>2, <2>2 DEF Job
    <3>2. stay_room[job[t].stay] = NoRoom
      BY <1>1, <3>1 DEF Inv, RequestDiscipline, AssignsAlone
    <3>3. row \in assignments
      BY <1>7, <2>2 DEF Visible
    <3>4. row.room_id \in RoomId /\ row.room_id = stay_room[row.stay_id]
      BY <3>3 DEF Inv, TypeOK, Assignment, StayHoldsOneRoom
    <3> QED  BY <3>2, <3>3, <3>4, ReservationAssumption
  <2> QED  BY <2>1, <2>2
<1>8. ASSUME NEW row \in Visible(t), row.room_id = chosen[t]
      PROVE  ~Overlap(row, NewRow(t).check_in, NewRow(t).check_out)
  BY <1>3, <1>8 DEF FreeCandidates, HasOverlap, NewRow
<1> QED  BY <1>2, <1>4, <1>5, <1>6, <1>7, <1>8

(* Types are kept by every step. *)
LEMMA TypeInductive == Inv /\ [Next]_vars => TypeOK'
<1> SUFFICES ASSUME Inv, [Next]_vars PROVE TypeOK'
  OBVIOUS
<1>0. TypeOK
  BY DEF Inv
<1>1. ASSUME NEW row \in Inventory, AddRoom(row) PROVE TypeOK'
  BY <1>0, <1>1 DEF TypeOK, AddRoom
<1>2. ASSUME NEW t \in Thread, NEW s \in StayId, NEW want \in MaybeRoom,
             NEW b \in Booking, Reserve(t, s, b, want)
      PROVE  TypeOK'
  BY <1>0, <1>2 DEF TypeOK, Reserve, Job, MaybeRoom
<1>3. ASSUME NEW t \in Thread, NEW s \in StayId, NEW want \in MaybeRoom,
             ChangeRoom(t, s, want)
      PROVE  TypeOK'
  BY <1>0, <1>3 DEF TypeOK, ChangeRoom, tables, Job, MaybeRoom
<1>4. ASSUME NEW t \in Thread, ReadStay(t) PROVE TypeOK'
  <2>1. job[t] \in Job
    BY <1>4 DEF Inv, RequestDiscipline, RequestsKnown, ReadStay
  <2>2. stay_room[job[t].stay] \in MaybeRoom
    BY <1>0, <2>1 DEF TypeOK, Job
  <2>3. [job[t] EXCEPT !.old_room = stay_room[job[t].stay]] \in Job
    BY <2>1, <2>2 DEF Job
  <2>4. job' \in [Thread -> Job \cup {NoJob}]
    BY <1>0, <1>4, <2>3 DEF TypeOK, ReadStay
  <2> QED  BY <1>0, <1>4, <2>4 DEF TypeOK, ReadStay, tables
<1>5. ASSUME NEW t \in Thread, Begin(t) PROVE TypeOK'
  BY <1>0, <1>5 DEF TypeOK, Begin, tables
<1>6. ASSUME NEW t \in Thread, Busy(t) PROVE TypeOK'
  BY <1>0, <1>6 DEF TypeOK, Busy, tables
<1>7. ASSUME NEW t \in Thread, Select(t) PROVE TypeOK'
  BY <1>0, <1>7, CandidatesAreRooms DEF TypeOK, Select, tables, MaybeRoom
<1>8. ASSUME NEW t \in Thread, Commit(t) PROVE TypeOK'
  <2>1. assignments' \subseteq Assignment
    BY <1>0, <1>8, CommitFacts DEF TypeOK
  <2>2. stay_room' \in [StayId -> MaybeRoom]
    BY <1>0, <1>8, CommitFacts DEF TypeOK, Commit, MaybeRoom
  <2> QED  BY <1>0, <1>8, <2>1, <2>2 DEF TypeOK, Commit, Finish, MaybeRoom
<1>9. ASSUME NEW t \in Thread, Rollback(t) PROVE TypeOK'
  BY <1>0, <1>9 DEF TypeOK, Rollback, Finish, tables, MaybeRoom
<1>10. ASSUME NEW s \in StayId, FreeRoom(s) PROVE TypeOK'
  BY <1>0, <1>10 DEF TypeOK, FreeRoom, OwnRows
<1>11. CASE Crash
  BY <1>0, <1>11 DEF TypeOK, Crash, tables, MaybeRoom
<1>12. CASE UNCHANGED vars
  BY <1>0, <1>12 DEF TypeOK, vars
<1> QED  BY <1>1, <1>2, <1>3, <1>4, <1>5, <1>6, <1>7, <1>8, <1>9, <1>10, <1>11, <1>12
         DEF Next, Step

(* At most one thread is in a transaction: the holder of the write lock. *)
LEMMA WriterInductive == Inv /\ [Next]_vars => WriterHolds'
<1> SUFFICES ASSUME Inv, [Next]_vars PROVE WriterHolds'
  OBVIOUS
<1>0. TypeOK /\ WriterHolds
  BY DEF Inv, RequestDiscipline
<1> USE <1>0, ReservationAssumption DEF TypeOK, WriterHolds, InTransaction
<1>1. CASE UNCHANGED <<writer, pc>>
  BY <1>1
<1>2. ASSUME NEW t \in Thread, NEW s \in StayId, NEW want \in MaybeRoom,
             \/ \E b \in Booking : Reserve(t, s, b, want)
             \/ ChangeRoom(t, s, want)
      PROVE  WriterHolds'
  BY <1>2 DEF Reserve, ChangeRoom
<1>3. ASSUME NEW t \in Thread, ReadStay(t) \/ Busy(t) PROVE WriterHolds'
  BY <1>3 DEF ReadStay, Busy
<1>4. ASSUME NEW t \in Thread, Begin(t) PROVE WriterHolds'
  BY <1>4 DEF Begin
<1>5. ASSUME NEW t \in Thread, Select(t) PROVE WriterHolds'
  BY <1>5 DEF Select
<1>6. ASSUME NEW t \in Thread, Commit(t) \/ Rollback(t) PROVE WriterHolds'
  BY <1>6 DEF Commit, Rollback, Finish
<1>7. CASE Crash
  BY <1>7 DEF Crash
<1>8. CASE UNCHANGED vars
  BY <1>1, <1>8 DEF vars
<1> QED  BY <1>1, <1>2, <1>3, <1>4, <1>5, <1>6, <1>7, <1>8
         DEF Next, Step, AddRoom, FreeRoom

(* Every request at work is for a stay that exists. *)
LEMMA KnownInductive == Inv /\ [Next]_vars => RequestsKnown'
<1> SUFFICES ASSUME Inv, [Next]_vars PROVE RequestsKnown'
  OBVIOUS
<1>0. TypeOK /\ RequestsKnown
  BY DEF Inv, RequestDiscipline
<1> USE <1>0, ReservationAssumption DEF TypeOK, RequestsKnown
<1>1. CASE UNCHANGED <<stays, stay_room, pc, job>>
  BY <1>1
<1>2. ASSUME NEW t \in Thread, NEW s \in StayId, NEW want \in MaybeRoom,
             NEW b \in Booking, Reserve(t, s, b, want)
      PROVE  RequestsKnown'
  <2>1. /\ stays'[s] = b /\ \A x \in StayId \ {s} : stays'[x] = stays[x]
        /\ stay_room' = stay_room
    BY <1>2 DEF Reserve
  <2>2. /\ job'[t] \in Job /\ job'[t].stay = s
        /\ \A u \in Thread \ {t} : job'[u] = job[u] /\ pc'[u] = pc[u]
    BY <1>2 DEF Reserve, Job, MaybeRoom
  <2> QED  BY <2>1, <2>2 DEF Job
<1>3. ASSUME NEW t \in Thread, NEW s \in StayId, NEW want \in MaybeRoom,
             ChangeRoom(t, s, want)
      PROVE  RequestsKnown'
  <2>1. /\ job'[t] \in Job /\ job'[t].stay = s /\ stays[s] # NoBooking
        /\ \A u \in Thread \ {t} : job'[u] = job[u] /\ pc'[u] = pc[u]
    BY <1>3 DEF ChangeRoom, Job, MaybeRoom
  <2> QED  BY <1>3, <2>1 DEF ChangeRoom, tables
<1>4. ASSUME NEW t \in Thread, ReadStay(t) PROVE RequestsKnown'
  <2>1. job[t] \in Job /\ stays[job[t].stay] # NoBooking
    BY <1>4 DEF ReadStay
  <2>2. stay_room[job[t].stay] \in MaybeRoom
    BY <2>1 DEF Job
  <2>3. pc'[t] # "idle" => job'[t] \in Job /\ job'[t].stay = job[t].stay
    BY <1>4, <2>1, <2>2 DEF ReadStay, Job
  <2>4. \A u \in Thread \ {t} : job'[u] = job[u] /\ pc'[u] = pc[u]
    BY <1>4 DEF ReadStay
  <2> QED  BY <1>4, <2>1, <2>3, <2>4 DEF ReadStay, tables
<1>5. ASSUME NEW t \in Thread, Begin(t) \/ Busy(t) \/ Select(t) PROVE RequestsKnown'
  BY <1>5 DEF Begin, Busy, Select, tables
<1>6. ASSUME NEW t \in Thread, Commit(t) PROVE RequestsKnown'
  <2>1. stays[job[t].stay] # NoBooking /\ job[t].stay \in StayId
    BY <1>6 DEF Commit, Job
  <2> QED  BY <1>6, <2>1 DEF Commit, Finish
<1>7. ASSUME NEW t \in Thread, Rollback(t) PROVE RequestsKnown'
  BY <1>7 DEF Rollback, Finish, tables
<1>8. CASE Crash
  BY <1>8 DEF Crash, tables
<1>9. CASE UNCHANGED vars
  BY <1>1, <1>9 DEF vars
<1> QED  BY <1>1, <1>2, <1>3, <1>4, <1>5, <1>6, <1>7, <1>8, <1>9
         DEF Next, Step, AddRoom, FreeRoom

(* The request that assigns a first room has its stay to itself. *)
LEMMA AloneInductive == Inv /\ [Next]_vars => AssignsAlone'
<1> SUFFICES ASSUME Inv, [Next]_vars PROVE AssignsAlone'
  OBVIOUS
<1>0. TypeOK /\ AssignsAlone /\ RequestsKnown
  BY DEF Inv, RequestDiscipline
<1> USE <1>0 DEF TypeOK, AssignsAlone
<1>1. CASE UNCHANGED <<stay_room, pc, job>>
  BY <1>1
<1>2. ASSUME NEW t \in Thread, NEW s \in StayId, NEW want \in MaybeRoom,
             NEW b \in Booking, Reserve(t, s, b, want)
      PROVE  AssignsAlone'
  <2>1. stay_room[s] = NoRoom /\ \A u \in Thread : pc[u] # "idle" => job[u].stay # s
    BY <1>2 DEF RequestsKnown, Reserve
  <2>2. /\ job'[t].stay = s /\ stay_room' = stay_room
        /\ \A u \in Thread \ {t} : job'[u] = job[u] /\ pc'[u] = pc[u]
    BY <1>2 DEF Reserve
  <2> QED  BY <2>1, <2>2
<1>3. ASSUME NEW t \in Thread, NEW s \in StayId, NEW want \in MaybeRoom,
             ChangeRoom(t, s, want)
      PROVE  AssignsAlone'
  <2>1. /\ job'[t].stay = s /\ job'[t].op = "change"
        /\ stay_room[s] # NoRoom /\ stay_room' = stay_room
        /\ \A u \in Thread \ {t} : job'[u] = job[u] /\ pc'[u] = pc[u]
    BY <1>3 DEF ChangeRoom, tables
  <2> QED  BY <2>1
<1>4. ASSUME NEW t \in Thread, ReadStay(t) PROVE AssignsAlone'
  <2>1. job[t] \in Job
    BY <1>4 DEF ReadStay, RequestsKnown
  <2>2. pc'[t] # "idle" => job'[t].stay = job[t].stay /\ job'[t].op = job[t].op
    BY <1>4, <2>1 DEF ReadStay, Job
  <2>3. /\ pc[t] # "idle" /\ stay_room' = stay_room
        /\ \A u \in Thread \ {t} : job'[u] = job[u] /\ pc'[u] = pc[u]
    BY <1>4 DEF ReadStay, tables
  <2> QED  BY <2>2, <2>3
<1>5. ASSUME NEW t \in Thread, Begin(t) \/ Busy(t) \/ Select(t) PROVE AssignsAlone'
  BY <1>5 DEF Begin, Busy, Select, tables
<1>6. ASSUME NEW t \in Thread, Commit(t) PROVE AssignsAlone'
  <2>1. /\ pc[t] # "idle" /\ pc'[t] = "idle"
        /\ stay_room' = [stay_room EXCEPT ![job[t].stay] = chosen[t]]
        /\ \A u \in Thread \ {t} : job'[u] = job[u] /\ pc'[u] = pc[u]
    BY <1>6 DEF Commit, Finish
  <2>2. \A u \in Thread : pc[u] # "idle" => job[u].stay \in StayId
    BY DEF RequestsKnown, Job
  <2> QED  BY <2>1, <2>2
<1>7. ASSUME NEW t \in Thread, Rollback(t) PROVE AssignsAlone'
  BY <1>7 DEF Rollback, Finish, tables
<1>8. CASE Crash
  BY <1>8 DEF Crash, tables
<1>9. CASE UNCHANGED vars
  BY <1>1, <1>9 DEF vars
<1> QED  BY <1>1, <1>2, <1>3, <1>4, <1>5, <1>6, <1>7, <1>8, <1>9
         DEF Next, Step, AddRoom, FreeRoom

(* While a transaction is open nobody else writes, so what it has read is  *)
(* still so.                                                               *)
LEMMA ChoiceInductive == Inv /\ [Next]_vars => ChoiceIsCurrent'
<1> SUFFICES ASSUME Inv, [Next]_vars, NEW u \in Thread
             PROVE  /\ (pc[u] = "commit" => chosen[u] \in FreeCandidates(u))'
                    /\ (pc[u] = "rollback" => FreeCandidates(u) = {})'
  BY DEF ChoiceIsCurrent
<1>0. /\ TypeOK /\ WriterHolds
      /\ pc[u] = "commit" => chosen[u] \in FreeCandidates(u)
      /\ pc[u] = "rollback" => FreeCandidates(u) = {}
  BY DEF Inv, RequestDiscipline, ChoiceIsCurrent
<1>a. writer = NoThread => pc[u] \notin InTransaction
  BY <1>0, ReservationAssumption DEF WriterHolds
<1> DEFINE Goal == /\ (pc[u] = "commit" => chosen[u] \in FreeCandidates(u))'
                   /\ (pc[u] = "rollback" => FreeCandidates(u) = {})'
<1>1. ASSUME pc'[u] \notin InTransaction PROVE Goal
  BY <1>1 DEF InTransaction
<1>2. ASSUME UNCHANGED tables, job'[u] = job[u], pc'[u] = pc[u], chosen'[u] = chosen[u]
      PROVE  Goal
  BY <1>0, <1>2, ViewUnchanged
<1> HIDE DEF Goal
<1>3. ASSUME NEW row \in Inventory, AddRoom(row) PROVE Goal
  BY <1>1, <1>3, <1>a DEF AddRoom
<1>4. ASSUME NEW t \in Thread, NEW s \in StayId, NEW want \in MaybeRoom,
             NEW b \in Booking, Reserve(t, s, b, want)
      PROVE  Goal
  <2>1. writer = NoThread /\ pc'[u] \in {pc[u], "read"}
    BY <1>0, <1>4 DEF Reserve, TypeOK
  <2> QED  BY <1>1, <1>a, <2>1 DEF InTransaction
<1>5. ASSUME NEW t \in Thread, NEW s \in StayId, NEW want \in MaybeRoom,
             ChangeRoom(t, s, want)
      PROVE  Goal
  <2>1. CASE u = t
    BY <1>0, <1>1, <1>5, <2>1 DEF ChangeRoom, TypeOK, InTransaction
  <2>2. CASE u # t
    BY <1>0, <1>2, <1>5, <2>2 DEF ChangeRoom, TypeOK
  <2> QED  BY <2>1, <2>2
<1>6. ASSUME NEW t \in Thread, ReadStay(t) \/ Begin(t) \/ Busy(t) PROVE Goal
  <2>1. CASE u = t
    <3>1. pc'[u] \in {"idle", "begin", "select"}
      BY <1>0, <1>6, <2>1 DEF ReadStay, Begin, Busy, TypeOK
    <3> QED  BY <3>1 DEF Goal
  <2>2. CASE u # t
    BY <1>0, <1>2, <1>6, <2>2 DEF ReadStay, Begin, Busy, TypeOK
  <2> QED  BY <2>1, <2>2
<1>7. ASSUME NEW t \in Thread, Select(t) PROVE Goal
  <2>0. UNCHANGED tables /\ job' = job
    BY <1>7 DEF Select
  <2>1. CASE u = t
    <3>1. FreeCandidates(u)' = FreeCandidates(u)
      BY <2>0, ViewUnchanged
    <3>2. \/ pc'[u] = "commit" /\ chosen'[u] \in FreeCandidates(u)
          \/ pc'[u] = "rollback" /\ FreeCandidates(u) = {}
      BY <1>0, <1>7, <2>1 DEF Select, TypeOK
    <3> QED  BY <3>1, <3>2 DEF Goal
  <2>2. CASE u # t
    <3>1. pc'[u] = pc[u] /\ chosen'[u] = chosen[u]
      BY <1>0, <1>7, <2>2 DEF Select, TypeOK
    <3> QED  BY <1>2, <2>0, <3>1
  <2> QED  BY <2>1, <2>2
<1>8. ASSUME NEW t \in Thread, Commit(t) \/ Rollback(t) PROVE Goal
  <2>1. writer = t
    BY <1>0, <1>8 DEF WriterHolds, InTransaction, Commit, Rollback
  <2>2. u # t => pc[u] \notin InTransaction
    BY <1>0, <2>1 DEF WriterHolds
  <2>3. pc'[u] \notin InTransaction
    BY <1>0, <1>8, <2>2 DEF Commit, Rollback, Finish, TypeOK, InTransaction
  <2> QED  BY <1>1, <2>3
<1>9. ASSUME NEW s \in StayId, FreeRoom(s) PROVE Goal
  BY <1>1, <1>9, <1>a DEF FreeRoom
<1>10. ASSUME Crash PROVE Goal
  <2>1. pc'[u] = "idle"
    BY <1>10 DEF Crash
  <2> QED  BY <1>1, <2>1 DEF InTransaction
<1>11. ASSUME UNCHANGED vars PROVE Goal
  <2>1. UNCHANGED tables /\ job' = job /\ pc' = pc /\ chosen' = chosen
    BY <1>11 DEF vars, tables
  <2> QED  BY <1>2, <2>1
<1>12. Goal
  BY <1>3, <1>4, <1>5, <1>6, <1>7, <1>8, <1>9, <1>10, <1>11 DEF Next, Step
<1> QED  BY <1>12 DEF Goal

(* A Commit replaces a stay's row by the one it inserts; nothing else adds *)
(* a row, and no stay's room or window changes under its row.              *)
LEMMA HoldsInductive == Inv /\ [Next]_vars => StayHoldsOneRoom'
<1> SUFFICES ASSUME Inv, [Next]_vars PROVE StayHoldsOneRoom'
  OBVIOUS
<1>0. TypeOK /\ StayHoldsOneRoom
  BY DEF Inv
<1>1. ASSUME assignments' \subseteq assignments, UNCHANGED <<stays, stay_room>>
      PROVE  StayHoldsOneRoom'
  BY <1>0, <1>1 DEF StayHoldsOneRoom, OwnRows
<1>2. ASSUME NEW t \in Thread, NEW s \in StayId, NEW want \in MaybeRoom,
             NEW b \in Booking, Reserve(t, s, b, want)
      PROVE  StayHoldsOneRoom'
  <2>1. /\ assignments' = assignments /\ stay_room' = stay_room
        /\ \A x \in StayId : stays[x] # NoBooking => stays'[x] = stays[x]
    BY <1>0, <1>2 DEF Reserve, TypeOK
  <2>2. \A p \in assignments : p.stay_id \in StayId
    BY <1>0 DEF TypeOK, Assignment
  <2> QED  BY <1>0, <2>1, <2>2 DEF StayHoldsOneRoom, OwnRows
<1>3. ASSUME NEW t \in Thread, Commit(t) PROVE StayHoldsOneRoom'
  <2> DEFINE s == job[t].stay
  <2>1. /\ stays' = stays /\ s \in StayId
        /\ stay_room' = [stay_room EXCEPT ![s] = chosen[t]]
    BY <1>3, CommitFacts DEF Commit, Job
  <2>2. assignments' = Visible(t) \cup {NewRow(t)}
    BY <1>3, CommitFacts
  <2>3. \A row \in Visible(t) : row \in assignments /\ row.stay_id # s
    BY <1>3, CommitFacts
  <2>4. /\ NewRow(t).stay_id = s /\ NewRow(t).room_id = chosen[t]
        /\ NewRow(t).check_in = stays[s].check_in
        /\ NewRow(t).check_out = stays[s].check_out
        /\ stays[s] # NoBooking
    BY <1>3, CommitFacts, ReservationAssumption DEF NewRow
  <2> HIDE DEF s
  <2> SUFFICES ASSUME NEW p \in assignments'
               PROVE  /\ p.room_id = stay_room'[p.stay_id]
                      /\ \A q \in OwnRows(assignments', p.stay_id) : q = p
                      /\ stays'[p.stay_id] # NoBooking
                      /\ p.check_in = stays'[p.stay_id].check_in
                      /\ p.check_out = stays'[p.stay_id].check_out
    BY DEF StayHoldsOneRoom, OwnRows
  <2>5. CASE p = NewRow(t)
    <3>1. \A q \in OwnRows(assignments', p.stay_id) : q = p
      BY <2>2, <2>3, <2>4, <2>5 DEF OwnRows
    <3>2. p.room_id = stay_room'[p.stay_id]
      BY <1>0, <2>1, <2>4, <2>5 DEF TypeOK
    <3> QED  BY <2>1, <2>4, <2>5, <3>1, <3>2
  <2>6. CASE p \in Visible(t)
    <3>1. p \in assignments /\ p.stay_id # s /\ p.stay_id \in StayId
      BY <1>0, <2>3, <2>6 DEF TypeOK, Assignment
    <3>2. \A q \in OwnRows(assignments', p.stay_id) : q = p
      BY <1>0, <2>2, <2>3, <2>4, <3>1 DEF OwnRows, StayHoldsOneRoom
    <3>3. stay_room'[p.stay_id] = stay_room[p.stay_id]
      BY <1>0, <2>1, <3>1 DEF TypeOK
    <3> QED  BY <1>0, <2>1, <3>1, <3>2, <3>3 DEF StayHoldsOneRoom
  <2> QED  BY <2>2, <2>5, <2>6
<1>4. CASE UNCHANGED vars
  BY <1>1, <1>4 DEF vars
<1> QED  BY <1>1, <1>2, <1>3, <1>4
         DEF Next, Step, AddRoom, ChangeRoom, ReadStay, Begin, Busy, Select, Rollback,
             FreeRoom, OwnRows, Crash, tables

(* The inserted row clashes with none that stays. *)
LEMMA BookingInductive == Inv /\ [Next]_vars => NoDoubleBooking'
<1> SUFFICES ASSUME Inv, [Next]_vars PROVE NoDoubleBooking'
  OBVIOUS
<1>0. TypeOK /\ NoDoubleBooking
  BY DEF Inv
<1>1. ASSUME assignments' \subseteq assignments PROVE NoDoubleBooking'
  BY <1>0, <1>1 DEF NoDoubleBooking, Overlap
<1>2. ASSUME NEW t \in Thread, Commit(t) PROVE NoDoubleBooking'
  <2>1. /\ assignments' = Visible(t) \cup {NewRow(t)}
        /\ NewRow(t) \in Assignment /\ NewRow(t).room_id = chosen[t]
        /\ \A row \in Visible(t) : row \in assignments
    BY <1>2, CommitFacts DEF NewRow
  <2>2. ASSUME NEW row \in Visible(t), row.room_id = NewRow(t).room_id
        PROVE  /\ ~Overlap(row, NewRow(t).check_in, NewRow(t).check_out)
               /\ ~Overlap(NewRow(t), row.check_in, row.check_out)
    <3>1. ~Overlap(row, NewRow(t).check_in, NewRow(t).check_out)
      BY <1>2, <2>1, <2>2, CommitFacts
    <3>2. row \in Assignment
      BY <1>0, <2>1 DEF TypeOK
    <3> QED  BY <2>1, <3>1, <3>2, OverlapSymmetric
  <2> SUFFICES ASSUME NEW p \in assignments', NEW q \in assignments',
                      p.room_id = q.room_id, p.stay_id # q.stay_id
               PROVE  ~Overlap(p, q.check_in, q.check_out)
    BY DEF NoDoubleBooking, Overlap
  <2>3. CASE p \in Visible(t) /\ q \in Visible(t)
    BY <1>0, <2>1, <2>3 DEF NoDoubleBooking
  <2>4. CASE p = NewRow(t) \/ q = NewRow(t)
    BY <2>1, <2>2, <2>4
  <2> QED  BY <2>1, <2>3, <2>4
<1>3. CASE UNCHANGED vars
  BY <1>1, <1>3 DEF vars
<1> QED  BY <1>1, <1>2, <1>3
         DEF Next, Step, AddRoom, Reserve, ChangeRoom, ReadStay, Begin, Busy, Select,
             Rollback, FreeRoom, OwnRows, Crash, tables

-----------------------------------------------------------------------------
(* The inductive invariant holds in every state of the store. *)
THEOREM InvHolds == Spec => []Inv
<1>1. Inv /\ [Next]_vars => Inv'
  BY TypeInductive, WriterInductive, KnownInductive, AloneInductive, ChoiceInductive,
     HoldsInductive, BookingInductive
     DEF Inv, RequestDiscipline
<1> QED  BY <1>1, InitInv, PTL DEF Spec

(* A room is never assigned to two overlapping stays: the guarantee of     *)
(* assign_room and change_room, for every set of threads, stays and rooms, *)
(* every window, and a crash at any point.                                 *)
THEOREM NeverDoubleBooked == Spec => []NoDoubleBooking
BY InvHolds, PTL DEF Inv

(* The store stays well typed. *)
THEOREM TypeCorrect == Spec => []TypeOK
BY InvHolds, PTL DEF Inv

(* A stay holds at most one room, the one its row names, for its window.   *)
THEOREM OneRoomPerStay == Spec => []StayHoldsOneRoom
BY InvHolds, PTL DEF Inv

(* What a transaction has read is still so when it commits or gives up.    *)
THEOREM ChoiceStaysCurrent == Spec => []ChoiceIsCurrent
BY InvHolds, PTL DEF Inv

(* Only its checkout takes a stay's room away, whichever of its room       *)
(* changes fail, time out or die with the server (change_room).            *)
THEOREM RoomKept == Spec => RoomKeptUnlessFreed
<1>1. Inv /\ [Next]_vars => \A s \in StayId : KeepsRoom(s)
  <2> SUFFICES ASSUME Inv, [Next]_vars, NEW s \in StayId,
                      NEW row \in assignments, row.stay_id = s
               PROVE  (\E new \in assignments' : new.stay_id = s) \/ FreeRoom(s)
    BY DEF KeepsRoom, OwnRows
  <2>1. CASE UNCHANGED assignments
    BY <2>1
  <2>2. ASSUME NEW x \in StayId, FreeRoom(x)
        PROVE  (\E new \in assignments' : new.stay_id = s) \/ FreeRoom(s)
    BY <2>2 DEF FreeRoom, OwnRows
  <2>3. ASSUME NEW t \in Thread, Commit(t)
        PROVE  \E new \in assignments' : new.stay_id = s
    <3>1. assignments' = Visible(t) \cup {NewRow(t)} /\ NewRow(t).stay_id = job[t].stay
      BY <2>3, CommitFacts DEF NewRow
    <3>2. row.stay_id # job[t].stay => row \in Visible(t)
      BY DEF Visible, OwnRows
    <3> QED  BY <3>1, <3>2
  <2>4. CASE UNCHANGED vars
    BY <2>1, <2>4 DEF vars
  <2> QED  BY <2>1, <2>2, <2>3, <2>4
           DEF Next, Step, AddRoom, Reserve, ChangeRoom, ReadStay, Begin, Busy, Select,
               Rollback, Crash, tables
<1>2. Inv /\ [Next]_vars => [\A s \in StayId : KeepsRoom(s)]_vars
  BY <1>1
<1> QED  BY <1>2, InvHolds, PTL DEF Spec, RoomKeptUnlessFreed

(* At most one request is inside a transaction, every request is for a     *)
(* stay that exists, and the request for a stay's first room is alone at   *)
(* work on that stay.                                                      *)
THEOREM Disciplined == Spec => []RequestDiscipline
BY InvHolds, PTL DEF Inv

-----------------------------------------------------------------------------
(* The refinement.  The room a stay holds in the ledger is the one its row *)
(* names.                                                                  *)
LEMMA HeldIsNamed ==
  ASSUME StayHoldsOneRoom, NEW s \in StayId
  PROVE  RoomHeld(s) = IF \E row \in assignments : row.stay_id = s
                       THEN stay_room[s] ELSE NoRoom
<1>1. CASE OwnRows(assignments, s) = {}
  BY <1>1 DEF RoomHeld, OwnRows
<1>2. CASE OwnRows(assignments, s) # {}
  <2>1. PICK row \in OwnRows(assignments, s) : row = CHOOSE r \in OwnRows(assignments, s) : TRUE
    BY <1>2
  <2>2. row \in assignments /\ row.stay_id = s
    BY DEF OwnRows
  <2>3. row.room_id = stay_room[s]
    BY <2>2 DEF StayHoldsOneRoom
  <2>4. RoomHeld(s) = row.room_id
    BY <1>2, <2>1 DEF RoomHeld
  <2> QED  BY <2>2, <2>3, <2>4
<1> QED  BY <1>1, <1>2

(* What a step leaves of a stay's rows and room, it leaves of the ledger.  *)
LEMMA HeldUnchanged ==
  ASSUME NEW s \in StayId, OwnRows(assignments, s)' = OwnRows(assignments, s)
  PROVE  RoomHeld(s)' = RoomHeld(s)
BY DEF RoomHeld

Held == [s \in StayId |-> RoomHeld(s)]

LEMMA LedgerInit == Init => Ledger!Init
<1> SUFFICES ASSUME Init PROVE Ledger!Init
  OBVIOUS
<1>1. \A s \in StayId : RoomHeld(s) = NoRoom
  BY DEF Init, RoomHeld, OwnRows
<1> QED  BY <1>1 DEF Init, Ledger!Init

(* A commit gives the stay its room in the ledger. *)
LEMMA CommitTakes ==
  ASSUME Inv, Inv', NEW t \in Thread, Commit(t)
  PROVE  Ledger!Next
<1>a. PICK s \in StayId, room \in RoomId : s = job[t].stay /\ room = chosen[t]
  BY CommitFacts DEF Job
<1>1. /\ stays[s] \in Booking
      /\ assignments' = Visible(t) \cup {NewRow(t)}
      /\ \A row \in Visible(t) : row \in assignments /\ row.stay_id # s
      /\ \A row \in Visible(t) : row.room_id = room =>
           ~Overlap(row, stays[s].check_in, stays[s].check_out)
  BY <1>a, CommitFacts DEF NewRow
<1>2. UNCHANGED stays /\ stay_room' = [stay_room EXCEPT ![s] = room]
  BY <1>a DEF Commit
<1>3. NewRow(t).stay_id = s /\ NewRow(t).room_id = room
  BY <1>a DEF NewRow
<1>4. \A row \in assignments : row.stay_id # s => row \in Visible(t)
  BY <1>a DEF Visible, OwnRows
<1>5. RoomHeld(s)' = room
  <2>1. stay_room'[s] = room
    BY <1>1, <1>2 DEF Inv, TypeOK
  <2>2. StayHoldsOneRoom'
    BY DEF Inv
  <2>3. \E row \in assignments' : row.stay_id = s
    BY <1>1, <1>3
  <2>4. PICK row \in OwnRows(assignments, s)' :
             row = CHOOSE r \in OwnRows(assignments, s)' : TRUE
    BY <2>3 DEF OwnRows
  <2>5. row \in assignments' /\ row.stay_id = s
    BY <2>4 DEF OwnRows
  <2>6. row.room_id = room
    BY <2>1, <2>2, <2>5 DEF StayHoldsOneRoom
  <2> QED  BY <2>4, <2>6 DEF RoomHeld
<1>6. ASSUME NEW x \in StayId \ {s} PROVE RoomHeld(x)' = RoomHeld(x)
  <2>1. OwnRows(assignments, x)' = OwnRows(assignments, x)
    BY <1>1, <1>3, <1>4, <1>6 DEF OwnRows
  <2> QED  BY <2>1, HeldUnchanged
<1>7. Held' = [Held EXCEPT ![s] = room]
  BY <1>1, <1>5, <1>6 DEF Held
<1>8. ASSUME NEW x \in StayId \ {s}, RoomHeld(x) = room
      PROVE  ~(stays[x].check_in < stays[s].check_out /\ stays[s].check_in < stays[x].check_out)
  <2>1. room # NoRoom
    BY <1>1, ReservationAssumption
  <2>2. PICK row \in assignments : row.stay_id = x
    BY <1>8, <2>1, HeldIsNamed DEF Inv
  <2>3. row.room_id = room
    BY <1>8, <2>2, HeldIsNamed DEF Inv, StayHoldsOneRoom
  <2>4. ~Overlap(row, stays[s].check_in, stays[s].check_out)
    BY <1>1, <1>4, <2>2, <2>3
  <2>5. row.check_in = stays[x].check_in /\ row.check_out = stays[x].check_out
    BY <2>2 DEF Inv, StayHoldsOneRoom
  <2> QED  BY <2>4, <2>5 DEF Overlap
<1>9. Ledger!Take(s, room)
  BY <1>1, <1>2, <1>7, <1>8, ReservationAssumption DEF Ledger!Take, Ledger!Clash, Held
<1> QED  BY <1>1, <1>9 DEF Ledger!Next

(* Room assignment implements the ledger, for every set of threads, stays, *)
(* rooms and windows: at every COMMIT of assign_room and change_room the   *)
(* chosen room is free in the whole window, and nothing but a COMMIT, a    *)
(* new stay or a checkout shows outside.                                   *)
THEOREM LedgerImplemented == Spec => ImplementsLedger
<1>1. Inv /\ Inv' /\ [Next]_vars => [Ledger!Next]_<<stays, Held>>
  <2> SUFFICES ASSUME Inv, Inv', [Next]_vars
               PROVE  Ledger!Next \/ UNCHANGED <<stays, Held>>
    OBVIOUS
  <2>1. ASSUME UNCHANGED assignments PROVE Held' = Held
    BY <2>1 DEF Held, RoomHeld, OwnRows
  <2>2. ASSUME NEW t \in Thread, NEW s \in StayId, NEW b \in Booking,
               NEW want \in MaybeRoom, Reserve(t, s, b, want)
        PROVE  Ledger!Next
    <3>1. Held' = Held
      BY <2>1, <2>2 DEF Reserve
    <3>2. Ledger!Ask(s, b)
      BY <2>2, <3>1 DEF Reserve, Ledger!Ask, Held
    <3> QED  BY <3>2 DEF Ledger!Next
  <2>3. ASSUME NEW s \in StayId, FreeRoom(s) PROVE Ledger!Next
    <3>1. assignments' = assignments \ OwnRows(assignments, s) /\ UNCHANGED stays
      BY <2>3 DEF FreeRoom
    <3>2. RoomHeld(s)' = NoRoom
      BY <3>1 DEF RoomHeld, OwnRows
    <3>3. ASSUME NEW x \in StayId \ {s} PROVE RoomHeld(x)' = RoomHeld(x)
      <4>1. OwnRows(assignments, x)' = OwnRows(assignments, x)
        BY <3>1, <3>3 DEF OwnRows
      <4> QED  BY <4>1, HeldUnchanged
    <3>4. Held' = [Held EXCEPT ![s] = NoRoom]
      BY <3>2, <3>3 DEF Held
    <3>5. Ledger!Release(s)
      BY <3>1, <3>4 DEF Ledger!Release, Held
    <3> QED  BY <3>5 DEF Ledger!Next
  <2>4. ASSUME NEW t \in Thread, Commit(t) PROVE Ledger!Next
    BY <2>4, CommitTakes
  <2>5. ASSUME UNCHANGED <<stays, assignments>> PROVE UNCHANGED <<stays, Held>>
    BY <2>1, <2>5
  <2> QED  BY <2>2, <2>3, <2>4, <2>5
           DEF Next, Step, AddRoom, ChangeRoom, ReadStay, Begin, Busy, Select, Rollback,
               Crash, tables, vars
<1>2. Inv /\ Inv' /\ [Next]_vars => [Ledger!Next]_<<stays, [s \in StayId |-> RoomHeld(s)]>>
  BY <1>1 DEF Held
<1> QED  BY <1>2, InvHolds, LedgerInit, PTL DEF Spec, ImplementsLedger, Ledger!Spec
=============================================================================
