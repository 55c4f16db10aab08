------------------------- MODULE ReservationsProofs -------------------------
(***************************************************************************)
(* Proofs about the reservations of Private Payment Lists, for every set   *)
(* of workers and reservations and every bound, with calls that may carry  *)
(* the same reservation at the same time or not: the records are always    *)
(* ones a backup can be restored from, and a cancellation is only ever     *)
(* started for a list that is given up.                                    *)
(*                                                                         *)
(* The second needs to know that a list that was given up stays so: only   *)
(* the worker that holds the lease changes a list, and what it changes is  *)
(* a list that waits or the one it is sending (ClaimIsSending); and that   *)
(* what a worker set out to cancel belongs to lists that were given up     *)
(* when it looked (JobFits).                                               *)
(*                                                                         *)
(* When no two calls carry the same reservation at the same time, a list   *)
(* that may still be sent also keeps its reservations (BInv: those in the  *)
(* hands of a call are in no other hands and under no cancellation), and   *)
(* a call that fails undoes exactly what it has not persisted.             *)
(***************************************************************************)
EXTENDS Reservations, LeaseQueueProofs

\* The steps at which a worker has a list claimed, or cancels records.
Claimed == {"ready", "put", "sent", "failed", "broken"}
Cancelling == {"cancelClaim", "cancel", "remove"}

\* The steps that may follow a round of cancellations.
Plans == {<<"superseded", "invalid", "next">>, <<"invalid", "next">>, <<"invalid", "release">>,
          <<"next">>, <<"release">>}

Job == [hand : SUBSET Reservation, msg : Nat, at : Nat, todo : SUBSET (Reservation \X Nat),
        cur : {<<>>} \cup (Reservation \X Nat), plan : {<<>>} \cup Plans]

\* Invalid, or superseded before any attempt: never sent (again).
Hopeless(m) == m.status = "Invalid" \/ (m.status = "Superseded" /\ m.attempt = Never)
GivenUp(i) == i \in DOMAIN lists /\ Hopeless(lists[i])

\* What a worker holds fits the step it is at.
JobFits(w) ==
  /\ pc[w] \in Claimed => job[w].msg \in DOMAIN lists
  /\ pc[w] \in Cancelling => job[w].plan \in Plans /\ \A c \in job[w].todo : GivenUp(c[2])
  /\ pc[w] \in {"cancel", "remove"} => job[w].cur \in Reservation \X Nat
  /\ pc[w] = "superseded" => job[w].plan \in {<<"invalid", "next">>, <<"invalid", "release">>}
  /\ pc[w] = "invalid" => job[w].plan \in {<<"next">>, <<"release">>}

\* The list a lease holder has claimed is still the one being sent.
ClaimIsSending ==
  \A w \in Worker : HoldsLease(w) /\ pc[w] \in Claimed => lists[job[w].msg].status = "Sending"

\* A record under cancellation names a list that was given up.
StartedIsHopeless == \A r \in Reservation : record[r].started => GivenUp(record[r].msg)

\* The inductive invariant.
RInv ==
  /\ TypeOK /\ job \in [Worker -> Job]
  /\ \A w \in Worker : JobFits(w)
  /\ ClaimIsSending
  /\ LeaseUnique
  /\ ReservationBackupRestores
  /\ StartedIsHopeless

----------------------------------------------------------------------------
(* The steps of a worker, by what they do to the storage.                 *)

\* Worker w moves to step n; the others stay where they are.
Moves(w, n) ==
  /\ pc' \in [Worker -> Step] /\ job' \in [Worker -> Job]
  /\ pc'[w] = n
  /\ \A v \in Worker : v # w => pc'[v] = pc[v] /\ job'[v] = job[v]

(***************************************************************************)
(* The other workers' jobs still fit when lists that were given up stay so *)
(* and none disappears.                                                    *)
(***************************************************************************)
LEMMA OthersFit ==
  ASSUME RInv, NEW w \in Worker, NEW n, Moves(w, n), JobFits(w)',
         DOMAIN lists \subseteq DOMAIN lists',
         \A i \in DOMAIN lists : Hopeless(lists[i]) => Hopeless(lists'[i])
  PROVE  \A v \in Worker : JobFits(v)'
<1> SUFFICES ASSUME NEW v \in Worker, v # w PROVE JobFits(v)'
  OBVIOUS
<1>1. pc'[v] = pc[v] /\ job'[v] = job[v]
  BY DEF Moves, RInv, TypeOK
<1>2. \A i : GivenUp(i) => GivenUp(i)'
  BY DEF GivenUp
<1>3. JobFits(v)
  BY DEF RInv
<1> QED
  BY <1>1, <1>2, <1>3 DEF JobFits

(***************************************************************************)
(* A step that leaves the storage and the lease alone.                     *)
(***************************************************************************)
LEMMA PlainStep ==
  ASSUME RInv, NEW w \in Worker, NEW n \in Step, Moves(w, n), JobFits(w)',
         UNCHANGED <<leaseVars, storeVars>>,
         n \in Claimed => pc[w] \in Claimed /\ job'[w].msg = job[w].msg
  PROVE  RInv'
<1>1. lists' = lists /\ carries' = carries /\ record' = record /\ UNCHANGED leaseVars
  BY DEF storeVars
<1>2. TypeOK' /\ job' \in [Worker -> Job]
  BY <1>1 DEF RInv, TypeOK, Moves, LeaseTypeOK, leaseVars
<1>3. \A v \in Worker : JobFits(v)'
  BY <1>1, OthersFit
<1>4. ClaimIsSending'
  BY <1>1 DEF RInv, TypeOK, Moves, ClaimIsSending, HoldsLease, leaseVars
<1>5. LeaseUnique' /\ ReservationBackupRestores' /\ StartedIsHopeless'
  BY <1>1 DEF RInv, LeaseUnique, ReservationBackupRestores, validate_payment_endpoint_reservations,
     StartedIsHopeless, GivenUp, leaseVars
<1> QED
  BY <1>2, <1>3, <1>4, <1>5 DEF RInv

(***************************************************************************)
(* Claiming, releasing or losing the lease.                                *)
(***************************************************************************)
LEMMA LeaseStep ==
  ASSUME RInv, NEW w \in Worker, NEW n \in Step \ Claimed, Moves(w, n), JobFits(w)',
         UNCHANGED storeVars, ClaimLease(w) \/ ReleaseLease(w) \/ DropLease(w)
  PROVE  RInv'
<1>1. lists' = lists /\ carries' = carries /\ record' = record
  BY DEF storeVars
<1>2. LeaseTypeOK' /\ LeaseUnique'
  BY LeaseStepType, LeaseStepUnique DEF RInv, TypeOK
<1>3. TypeOK' /\ job' \in [Worker -> Job]
  BY <1>1, <1>2 DEF RInv, TypeOK, Moves
<1>4. \A v \in Worker : JobFits(v)'
  BY <1>1, OthersFit
<1>5. ASSUME NEW v \in Worker, HoldsLease(v)', pc'[v] \in Claimed
      PROVE  lists'[job'[v].msg].status = "Sending"
  <2>1. v # w
    BY <1>5 DEF Moves, RInv, TypeOK
  <2>2. HoldsLease(v)
    BY <1>5, <2>1, ClaimerIsAlone, LeavingMakesNoHolder DEF RInv, TypeOK
  <2> QED
    BY <1>1, <1>5, <2>1, <2>2 DEF RInv, TypeOK, Moves, ClaimIsSending
<1>6. ReservationBackupRestores' /\ StartedIsHopeless'
  BY <1>1 DEF RInv, ReservationBackupRestores, validate_payment_endpoint_reservations,
     StartedIsHopeless, GivenUp
<1> QED
  BY <1>2, <1>3, <1>4, <1>5, <1>6 DEF RInv, ClaimIsSending

\* An interval determines its bound.
LEMMA SameBound ==
  ASSUME NEW a \in Nat, NEW b \in Nat, 1 .. a = 1 .. b
  PROVE  a = b
<1>1. a < b => b \in 1 .. b /\ b \notin 1 .. a
  OBVIOUS
<1>2. b < a => a \in 1 .. a /\ a \notin 1 .. b
  OBVIOUS
<1> QED
  BY <1>1, <1>2

(***************************************************************************)
(* A transaction under the lease that stores lists of the same length and  *)
(* keeps the hopeless ones: it commits, or the operation ends.             *)
(***************************************************************************)
LEMMA SaveStep ==
  ASSUME RInv, NEW w \in Worker, NEW q \in Seq(Message), NEW n \in Step,
         SaveLists(w, q, n), UNCHANGED <<leaseVars, carries, record>>,
         DOMAIN q = DOMAIN lists,
         HoldsLease(w) => \A i \in DOMAIN lists : Hopeless(lists[i]) => q[i] = lists[i],
         job' \in [Worker -> Job], \A v \in Worker : v # w => job'[v] = job[v],
         HoldsLease(w) => JobFits(w)',
         n \in Claimed => q[job'[w].msg].status = "Sending"
  PROVE  RInv'
<1>0. UNCHANGED leaseVars /\ carries' = carries /\ record' = record
  OBVIOUS
<1>1. CASE ~HoldsLease(w)
  <2>1. pc' = [pc EXCEPT ![w] = "release"] /\ lists' = lists
    BY <1>1 DEF SaveLists, Goto
  <2>2. "release" \in Step /\ "release" \notin Claimed
    BY DEF Step, Claimed
  <2>3. Moves(w, "release")
    BY <2>1, <2>2 DEF Moves, RInv, TypeOK
  <2>4. pc'[w] = "release"
    BY <2>1 DEF RInv, TypeOK
  <2>5. JobFits(w)'
    BY <2>4 DEF JobFits, Claimed, Cancelling
  <2> QED
    BY <1>0, <2>1, <2>2, <2>3, <2>5, PlainStep DEF storeVars
<1>2. CASE HoldsLease(w)
  <2>1. pc' = [pc EXCEPT ![w] = n] /\ lists' = q
    BY <1>2 DEF SaveLists, Goto
  <2>2. Moves(w, n) /\ JobFits(w)'
    BY <1>2, <2>1 DEF Moves, RInv, TypeOK
  <2>3. \A v \in Worker : JobFits(v)'
    BY <1>2, <2>1, <2>2, OthersFit
  <2>4. lists \in Seq(Message) /\ Len(q) = Len(lists)
    <3>1. lists \in Seq(Message)
      BY DEF RInv, TypeOK
    <3>2. /\ Len(q) \in Nat /\ DOMAIN q = 1 .. Len(q)
          /\ Len(lists) \in Nat /\ DOMAIN lists = 1 .. Len(lists)
      BY <3>1, QueueShape, SMTT(20)
    <3>3. 1 .. Len(q) = 1 .. Len(lists)
      BY <3>2
    <3> QED
      BY <3>1, <3>2, <3>3, SameBound, Zenon
  <2>5. TypeOK' /\ job' \in [Worker -> Job]
    BY <1>0, <2>1, <2>4 DEF RInv, TypeOK, LeaseTypeOK, leaseVars
  <2>6. ASSUME NEW v \in Worker, HoldsLease(v)', pc'[v] \in Claimed
        PROVE  lists'[job'[v].msg].status = "Sending"
    <3>1. HoldsLease(v)
      BY <1>0, <2>6 DEF HoldsLease, leaseVars
    <3>2. v = w
      BY <1>2, <3>1, LoneHolder DEF RInv
    <3> QED
      BY <2>1, <2>6, <3>2 DEF RInv, TypeOK
  <2>7. LeaseUnique'
    BY <1>0 DEF RInv, LeaseUnique, leaseVars
  <2>8. ReservationBackupRestores'
    BY <1>0, <2>1 DEF RInv, ReservationBackupRestores, validate_payment_endpoint_reservations
  <2>9. StartedIsHopeless'
    BY <1>0, <1>2, <2>1 DEF RInv, StartedIsHopeless, GivenUp
  <2> QED
    BY <2>3, <2>5, <2>6, <2>7, <2>8, <2>9 DEF RInv, ClaimIsSending
<1> QED
  BY <1>1, <1>2

(***************************************************************************)
(* A change of the records: none moves to another list, and a cancellation *)
(* is started for a list that was given up.                                *)
(***************************************************************************)
LEMMA RecordStep ==
  ASSUME RInv, NEW w \in Worker, NEW n \in Step \ Claimed, Moves(w, n), JobFits(w)',
         UNCHANGED <<leaseVars, lists, carries>>,
         record' \in [Reservation -> [msg : 0 .. Len(lists), started : BOOLEAN]],
         \A r \in Reservation : record'[r].msg # 0 => record'[r].msg = record[r].msg,
         \A r \in Reservation : record'[r].started => GivenUp(record'[r].msg)
  PROVE  RInv'
<1>1. lists' = lists /\ carries' = carries /\ UNCHANGED leaseVars
  OBVIOUS
<1>2. TypeOK' /\ job' \in [Worker -> Job]
  BY <1>1 DEF RInv, TypeOK, Moves, LeaseTypeOK, leaseVars
<1>3. \A v \in Worker : JobFits(v)'
  BY <1>1, OthersFit
<1>4. ClaimIsSending'
  BY <1>1 DEF RInv, TypeOK, Moves, ClaimIsSending, HoldsLease, leaseVars
<1>5. LeaseUnique'
  BY <1>1 DEF RInv, LeaseUnique, leaseVars
<1>6. ReservationBackupRestores'
  BY <1>1 DEF RInv, ReservationBackupRestores, validate_payment_endpoint_reservations
<1>7. StartedIsHopeless'
  BY <1>1 DEF StartedIsHopeless, GivenUp
<1> QED
  BY <1>2, <1>3, <1>4, <1>5, <1>6, <1>7 DEF RInv

(***************************************************************************)
(* A list and its records stored in one transaction.                       *)
(***************************************************************************)
LEMMA QueueStep ==
  ASSUME RInv, NEW w \in Worker, NEW n \in Step \ Claimed, Moves(w, n), JobFits(w)',
         UNCHANGED leaseVars, NEW S \in SUBSET Reservation,
         lists' = Append(lists, NewMessage("list", Never)), carries' = Append(carries, S),
         record' = build_reservation_records(S, Len(lists'))
  PROVE  RInv'
<1>1. lists \in Seq(Message) /\ carries \in Seq(SUBSET Reservation) /\ Len(carries) = Len(lists)
  BY DEF RInv, TypeOK
<1>2. /\ lists' \in Seq(Message) /\ DOMAIN lists \subseteq DOMAIN lists'
      /\ \A i \in DOMAIN lists : lists'[i] = lists[i]
  BY <1>1, AppendedQueue DEF Never
<1>3. /\ Len(lists') = Len(lists) + 1 /\ Len(lists) \in Nat
      /\ DOMAIN lists = 1 .. Len(lists) /\ DOMAIN lists' = 1 .. Len(lists')
  BY <1>1, <1>2, QueueShape, AppendProperties DEF NewMessage
<1>4. /\ carries' \in Seq(SUBSET Reservation) /\ Len(carries') = Len(lists')
      /\ carries'[Len(lists')] = S
      /\ \A i \in DOMAIN lists : carries'[i] = carries[i]
  BY <1>1, <1>3, AppendProperties, LenProperties
<1>5. /\ record' \in [Reservation -> [msg : 0 .. Len(lists'), started : BOOLEAN]]
      /\ \A r \in S : record'[r] = [msg |-> Len(lists'), started |-> FALSE]
      /\ \A r \in Reservation \ S : record'[r] = record[r]
  BY <1>3 DEF build_reservation_records, RInv, TypeOK
<1>6. TypeOK' /\ job' \in [Worker -> Job]
  BY <1>2, <1>4, <1>5 DEF RInv, TypeOK, Moves, LeaseTypeOK, leaseVars
<1>7. \A v \in Worker : JobFits(v)'
  BY <1>2, OthersFit
<1>8. ASSUME NEW v \in Worker, HoldsLease(v)', pc'[v] \in Claimed
      PROVE  lists'[job'[v].msg].status = "Sending"
  <2>1. v # w /\ HoldsLease(v)
    BY <1>8 DEF Moves, HoldsLease, leaseVars
  <2>2. JobFits(v) /\ pc[v] \in Claimed /\ job'[v] = job[v]
    BY <1>8, <2>1 DEF Moves, RInv
  <2> QED
    BY <1>2, <2>1, <2>2 DEF RInv, ClaimIsSending, JobFits
<1>9. LeaseUnique'
  BY DEF RInv, LeaseUnique, leaseVars
<1>10. ReservationBackupRestores'
  <2>1. ASSUME NEW r \in Reservation, record'[r].msg # 0
        PROVE  record'[r].msg \in DOMAIN lists' /\ r \in carries'[record'[r].msg]
    <3>1. CASE r \in S
      <4>1. record'[r].msg = Len(lists')
        BY <1>5, <3>1
      <4>2. Len(lists') \in DOMAIN lists'
        BY <1>3
      <4> QED
        BY <1>4, <3>1, <4>1, <4>2
    <3>2. CASE r \notin S
      <4>1. record'[r] = record[r]
        BY <1>5, <3>2
      <4>2. record[r].msg \in DOMAIN lists /\ r \in carries[record[r].msg]
        BY <2>1, <4>1
           DEF RInv, ReservationBackupRestores, validate_payment_endpoint_reservations
      <4>3. carries'[record[r].msg] = carries[record[r].msg]
        BY <1>4, <4>2
      <4> QED
        BY <1>2, <4>1, <4>2, <4>3, Zenon
    <3> QED
      BY <3>1, <3>2, Zenon
  <2> QED
    BY <2>1, Zenon DEF ReservationBackupRestores, validate_payment_endpoint_reservations
<1>11. StartedIsHopeless'
  BY <1>2, <1>5 DEF RInv, StartedIsHopeless, GivenUp
<1> QED
  BY <1>6, <1>7, <1>8, <1>9, <1>10, <1>11, Zenon DEF RInv, ClaimIsSending

----------------------------------------------------------------------------
(* The actions.                                                           *)

\* The parts of a plan.
LEMMA PlanParts ==
  ASSUME NEW p \in Plans
  PROVE  /\ Head(p) \in {"superseded", "invalid", "next", "release"}
         /\ Tail(p) \in {<<>>} \cup Plans
         /\ Head(p) = "superseded" => Tail(p) \in {<<"invalid", "next">>}
         /\ Head(p) = "invalid" => Tail(p) \in {<<"next">>, <<"release">>}
<1>1. /\ Head(<<"superseded", "invalid", "next">>) = "superseded"
      /\ Tail(<<"superseded", "invalid", "next">>) = <<"invalid", "next">>
  OBVIOUS
<1>2. Head(<<"invalid", "next">>) = "invalid" /\ Tail(<<"invalid", "next">>) = <<"next">>
  OBVIOUS
<1>3. Head(<<"invalid", "release">>) = "invalid" /\ Tail(<<"invalid", "release">>) = <<"release">>
  OBVIOUS
<1>4. Head(<<"next">>) = "next" /\ Tail(<<"next">>) = <<>>
  OBVIOUS
<1>5. Head(<<"release">>) = "release" /\ Tail(<<"release">>) = <<>>
  OBVIOUS
<1> QED
  BY <1>1, <1>2, <1>3, <1>4, <1>5, Zenon DEF Plans

\* The jobs a worker starts from.
LEMMA NewJobs ==
  /\ NoJob \in Job
  /\ \A x \in {"next", "release"} : Cleaning(x) \in Job /\ Cleaning(x).plan = <<"invalid", x>>
<1>1. NoJob \in Job
  BY DEF NoJob, Job
<1>2. ASSUME NEW x \in {"next", "release"}
      PROVE  Cleaning(x) \in Job /\ Cleaning(x).plan = <<"invalid", x>>
  <2>1. <<"invalid", x>> \in Plans
    BY <1>2 DEF Plans
  <2>2. Cleaning(x) = [NoJob EXCEPT !.plan = <<"invalid", x>>]
    BY DEF Cleaning
  <2> QED
    BY <1>1, <2>1, <2>2 DEF Job
<1> QED
  BY <1>1, <1>2

\* The cancellations of a list's records.
LEMMA RecordsType ==
  ASSUME RInv, NEW i \in Nat
  PROVE  RecordsOf(i) \subseteq Reservation \X Nat /\ \A c \in RecordsOf(i) : c[2] = i
BY DEF RecordsOf

(***************************************************************************)
(* The steps that only move on: nothing is claimed and nothing cancelled   *)
(* at the step they lead to.                                               *)
(***************************************************************************)
LEMMA SimpleStep ==
  ASSUME RInv, NEW w \in Worker,
         NEW n \in Step \ (Claimed \cup Cancelling \cup {"superseded", "invalid"}),
         Goto(w, n), UNCHANGED <<leaseVars, storeVars>>,
         job' \in [Worker -> Job], \A v \in Worker : v # w => job'[v] = job[v]
  PROVE  RInv'
<1>1. Moves(w, n)
  BY Zenon DEF Moves, Goto, RInv, TypeOK
<1>2. JobFits(w)'
  BY <1>1 DEF JobFits, Moves, Claimed, Cancelling
<1> QED
  BY <1>1, <1>2, PlainStep

\* Beginning a call, queueing up to the transaction, and giving reservations back.
LEMMA QueueingKeeps ==
  ASSUME RInv, NEW w \in Worker,
         \/ \E o \in DOMAIN FirstStep, S \in Offered : Begin(w, o, S)
         \/ ClaimRefused(w) \/ QueueAllowed(w) \/ QueueNotAllowed(w) \/ UndoDone(w)
         \/ \E S \in Offered : Reserve(w, S)
         \/ \E r \in Reservation : Undo(w, r)
         \/ \E ok \in BOOLEAN : UndoCancel(w, ok)
  PROVE  RInv'
<1> DEFINE Simple == Step \ (Claimed \cup Cancelling \cup {"superseded", "invalid"})
<1>0. job \in [Worker -> Job] /\ pc \in [Worker -> Step] /\ job[w] \in Job
  BY DEF RInv, TypeOK
<1>1. {"queue", "reserve", "send", "cleanup", "undo", "idle", "insert", "release", "undoCancel"}
        \subseteq Simple
  BY DEF Step, FirstStep, Claimed, Cancelling
<1>2. ASSUME NEW o \in DOMAIN FirstStep, NEW S \in Offered, Begin(w, o, S) PROVE RInv'
  <2>1. o \in Simple
    BY <1>1 DEF FirstStep
  <2>2. S \subseteq Reservation
    BY DEF Offered
  <2>3. job' \in [Worker -> Job] /\ \A v \in Worker : v # w => job'[v] = job[v]
    BY <1>0, <1>2, <2>2, Zenon DEF Begin, Job
  <2> QED
    BY <1>2, <2>1, <2>3, SimpleStep DEF Begin
<1>3. CASE ClaimRefused(w) \/ QueueAllowed(w) \/ QueueNotAllowed(w) \/ UndoDone(w)
  <2>1. PICK n \in Simple : Goto(w, n)
    BY <1>1, <1>3 DEF ClaimRefused, QueueAllowed, QueueNotAllowed, UndoDone
  <2>2. UNCHANGED <<leaseVars, storeVars, job>>
    BY <1>3 DEF ClaimRefused, QueueAllowed, QueueNotAllowed, UndoDone
  <2> QED
    BY <1>0, <2>1, <2>2, SimpleStep
<1>4. ASSUME NEW S \in Offered, Reserve(w, S) PROVE RInv'
  <2>1. job' \in [Worker -> Job] /\ \A v \in Worker : v # w => job'[v] = job[v]
    BY <1>0, <1>4, Zenon DEF Reserve, Job, Offered
  <2> QED
    BY <1>1, <1>4, <2>1, SimpleStep DEF Reserve
<1>5. ASSUME NEW r \in Reservation, Undo(w, r) PROVE RInv'
  <2>1. CASE record[r].msg # 0
    <3>1. job' = [job EXCEPT ![w].hand = @ \ {r}] /\ pc' = pc /\ pc[w] = "undo"
      BY <1>5, <2>1 DEF Undo
    <3>2. job' \in [Worker -> Job] /\ \A v \in Worker : v # w => job'[v] = job[v]
      BY <1>0, <3>1, Zenon DEF Job
    <3>3. Moves(w, "undo") /\ JobFits(w)'
      BY <1>0, <3>1, <3>2 DEF Moves, JobFits, Claimed, Cancelling
    <3> QED
      BY <1>1, <1>5, <3>3, PlainStep DEF Undo
  <2>2. CASE record[r].msg = 0
    <3>1. job' = [job EXCEPT ![w].cur = <<r, 0>>] /\ Goto(w, "undoCancel")
      BY <1>5, <2>2 DEF Undo
    <3>2. <<r, 0>> \in Reservation \X Nat
      OBVIOUS
    <3>3. job' \in [Worker -> Job] /\ \A v \in Worker : v # w => job'[v] = job[v]
      BY <1>0, <3>1, <3>2, Zenon DEF Job
    <3> QED
      BY <1>1, <1>5, <3>1, <3>3, SimpleStep DEF Undo
  <2> QED
    BY <2>1, <2>2
<1>6. ASSUME NEW ok \in BOOLEAN, UndoCancel(w, ok) PROVE RInv'
  <2>1. PICK r : job' = [job EXCEPT ![w].cur = <<>>, ![w].hand = @ \ {r}]
    BY <1>6, Zenon DEF UndoCancel
  <2>2. job' \in [Worker -> Job] /\ \A v \in Worker : v # w => job'[v] = job[v]
    BY <1>0, <2>1, Zenon DEF Job
  <2> QED
    BY <1>1, <1>6, <2>2, SimpleStep DEF UndoCancel
<1> QED
  BY <1>2, <1>3, <1>4, <1>5, <1>6

\* Taking, giving back and losing the lease.
LEMMA LeasingKeeps ==
  ASSUME RInv, NEW w \in Worker, Claim(w) \/ Release(w) \/ Crash(w)
  PROVE  RInv'
<1>0. job \in [Worker -> Job] /\ pc \in [Worker -> Step] /\ job[w] \in Job
  BY DEF RInv, TypeOK
<1>1. {"allowed", "ask", "next", "superseded", "idle"} \subseteq Step \ Claimed
  BY DEF Step, Claimed
<1>2. CASE Claim(w)
  <2> DEFINE n == FirstStep[pc[w]]
  <2>1. /\ pc[w] \in {"queue", "reserve", "send", "cleanup"}
        /\ n \in {"allowed", "ask", "next", "superseded"}
        /\ n = "superseded" => pc[w] = "cleanup"
    BY <1>2 DEF Claim, FirstStep
  <2>2. pc' = [pc EXCEPT ![w] = n]
    BY <1>2 DEF Claim, Goto
  <2> HIDE DEF n
  <2>3. /\ job' \in [Worker -> Job] /\ \A v \in Worker : v # w => job'[v] = job[v]
        /\ pc[w] = "cleanup" => job'[w].plan = <<"invalid", "release">>
    BY <1>0, <1>2, NewJobs DEF Claim
  <2>4. Moves(w, n)
    BY <1>0, <1>1, <2>1, <2>2, <2>3, Zenon DEF Moves
  <2>5. JobFits(w)'
    BY <2>1, <2>3, <2>4 DEF JobFits, Moves, Claimed, Cancelling
  <2> QED
    BY <1>1, <1>2, <2>1, <2>4, <2>5, LeaseStep DEF Claim
<1>3. CASE Release(w) \/ Crash(w)
  <2>1. pc' = [pc EXCEPT ![w] = "idle"] /\ job' = [job EXCEPT ![w] = NoJob]
    BY <1>3 DEF Release, Crash, Goto
  <2>2. Moves(w, "idle")
    BY <1>0, <1>1, <2>1, NewJobs DEF Moves
  <2>3. JobFits(w)'
    BY <2>2 DEF JobFits, Moves, Claimed, Cancelling
  <2> QED
    BY <1>1, <1>3, <2>2, <2>3, LeaseStep DEF Release, Crash
<1> QED
  BY <1>2, <1>3

\* queue_private_payment_list_with_reservations_inner.
LEMMA QueueListKeeps ==
  ASSUME RInv, NEW w \in Worker, QueueList(w)
  PROVE  RInv'
<1> DEFINE S == job[w].hand
<1>0. job \in [Worker -> Job] /\ pc \in [Worker -> Step] /\ S \in SUBSET Reservation
  BY DEF RInv, TypeOK, Job
<1>1. {"release", "undo"} \subseteq Step \ (Claimed \cup Cancelling \cup {"superseded", "invalid"})
  BY DEF Step, Claimed, Cancelling
<1>2. CASE HoldsLease(w) /\ \A r \in S : ~record[r].started
  <2>1. /\ lists' = Append(lists, NewMessage("list", Never)) /\ carries' = Append(carries, S)
        /\ record' = build_reservation_records(S, Len(lists'))
        /\ job' = [job EXCEPT ![w].hand = {}] /\ pc' = [pc EXCEPT ![w] = "release"]
        /\ UNCHANGED leaseVars
    BY <1>2 DEF QueueList, Goto
  <2>2. job' \in [Worker -> Job] /\ \A v \in Worker : v # w => job'[v] = job[v]
    BY <1>0, <2>1, Zenon DEF Job
  <2>3. Moves(w, "release")
    BY <1>0, <1>1, <2>1, <2>2 DEF Moves
  <2>4. JobFits(w)'
    BY <2>3 DEF JobFits, Moves, Claimed, Cancelling
  <2> HIDE DEF S
  <2> QED
    BY <1>0, <1>1, <2>1, <2>3, <2>4, QueueStep
<1>3. CASE ~(HoldsLease(w) /\ \A r \in S : ~record[r].started)
  <2>1. Goto(w, "undo") /\ UNCHANGED <<leaseVars, storeVars, job>>
    BY <1>3 DEF QueueList
  <2> QED
    BY <1>0, <1>1, <2>1, SimpleStep
<1> QED
  BY <1>2, <1>3

\* claim_next_outbound_private_message, which supersedes lists and claims one.
LEMMA ClaimNextKeeps ==
  ASSUME RInv, NEW w \in Worker, ClaimNext(w)
  PROVE  RInv'
<1> DEFINE q == Supersede(lists, StaleBefore, RetryAfter)
           i == NextMessage(lists, StaleBefore, RetryAfter)
           r == [q EXCEPT ![i].status = "Sending", ![i].attempt = now]
<1>0. /\ job \in [Worker -> Job] /\ pc \in [Worker -> Step] /\ job[w] \in Job
      /\ lists \in Seq(Message) /\ now \in Nat
  BY DEF RInv, TypeOK, LeaseTypeOK
<1>1. StaleBefore \in Int /\ RetryAfter \in Int
  BY <1>0, ReservationConstants DEF StaleBefore, RetryAfter
<1>2. /\ q \in Seq(Message) /\ DOMAIN q = DOMAIN lists
      /\ \A j \in DOMAIN lists : Hopeless(lists[j]) => q[j] = lists[j]
  <2>1. /\ q \in Seq(Message) /\ DOMAIN q = DOMAIN lists
        /\ \A j \in DOMAIN lists : q[j] = lists[j] \/ lists[j].status \in {"Pending", "Failed"}
    BY <1>0, <1>1, SupersedeType
  <2>2. \A m : Hopeless(m) => m.status \notin {"Pending", "Failed"}
    BY DEF Hopeless
  <2> QED
    BY <2>1, <2>2
<1>3. {"ready", "superseded"} \subseteq Step /\ "ready" \in Claimed /\ "superseded" \notin Claimed
  BY DEF Step, Claimed
<1>4. UNCHANGED <<leaseVars, carries, record>>
  BY DEF ClaimNext
<1>5. CASE i # 0
  <2>1. i \in DOMAIN lists /\ i \in Nat /\ lists[i].status \notin Terminal
    BY <1>0, <1>1, <1>5, NextIsOpen, QueueShape
  <2>2. /\ r \in Seq(Message) /\ DOMAIN r = DOMAIN lists /\ r[i].status = "Sending"
        /\ \A j \in DOMAIN lists : j # i => r[j] = q[j]
    BY <1>0, <1>2, <2>1, ClaimedQueue, Zenon
  <2>3. SaveLists(w, r, "ready") /\ job' = [job EXCEPT ![w].msg = i, ![w].at = now]
    BY <1>5 DEF ClaimNext
  <2>4. \A j \in DOMAIN lists : Hopeless(lists[j]) => r[j] = lists[j]
    BY <1>2, <2>1, <2>2 DEF Hopeless, Terminal
  <2> HIDE DEF q, i, r
  <2>5. /\ job' \in [Worker -> Job] /\ \A v \in Worker : v # w => job'[v] = job[v]
        /\ job'[w].msg = i
    BY <1>0, <2>1, <2>3, Zenon DEF Job
  <2>6. ASSUME HoldsLease(w) PROVE JobFits(w)'
    <3>1. lists' = r /\ pc'[w] = "ready"
      BY <1>0, <2>3, <2>6 DEF SaveLists, Goto
    <3> QED
      BY <2>1, <2>2, <2>5, <3>1 DEF JobFits, Claimed, Cancelling
  <2> QED
    BY <1>3, <1>4, <2>2, <2>3, <2>4, <2>5, <2>6, SaveStep
<1>6. CASE i = 0
  <2>1. SaveLists(w, q, "superseded") /\ job' = [job EXCEPT ![w] = Cleaning("release")]
    BY <1>6 DEF ClaimNext
  <2> HIDE DEF q, i, r
  <2>2. /\ job' \in [Worker -> Job] /\ \A v \in Worker : v # w => job'[v] = job[v]
        /\ job'[w].plan = <<"invalid", "release">>
    BY <1>0, <2>1, NewJobs
  <2>3. ASSUME HoldsLease(w) PROVE JobFits(w)'
    <3>1. pc'[w] = "superseded"
      BY <1>0, <2>1, <2>3 DEF SaveLists, Goto
    <3> QED
      BY <2>2, <3>1 DEF JobFits, Claimed, Cancelling
  <2> QED
    BY <1>2, <1>3, <1>4, <2>1, <2>2, <2>3, SaveStep
<1> QED
  BY <1>5, <1>6

(***************************************************************************)
(* The lease holder changes the list it claimed, which is not hopeless.    *)
(***************************************************************************)
LEMMA ClaimedChange ==
  ASSUME RInv, NEW w \in Worker, pc[w] \in Claimed, NEW t \in Status
  PROVE  LET q == [lists EXCEPT ![job[w].msg].status = t]
         IN  /\ q \in Seq(Message) /\ DOMAIN q = DOMAIN lists
             /\ job[w].msg \in DOMAIN lists /\ q[job[w].msg].status = t
             /\ HoldsLease(w) => \A i \in DOMAIN lists : Hopeless(lists[i]) => q[i] = lists[i]
<1>1. job[w].msg \in DOMAIN lists /\ lists \in Seq(Message)
  BY DEF RInv, TypeOK, JobFits
<1>2. HoldsLease(w) => lists[job[w].msg].status = "Sending"
  BY DEF RInv, ClaimIsSending
<1> QED
  BY <1>1, <1>2, StatusChange DEF Hopeless

\* The claimed list is looked at, written, and its outcome recorded.
LEMMA SendingKeeps ==
  ASSUME RInv, NEW w \in Worker,
         Ready(w) \/ RecordOutcome(w) \/ \E o \in {"sent", "failed", "broken"} : Put(w, o)
  PROVE  RInv'
<1>0. /\ job \in [Worker -> Job] /\ pc \in [Worker -> Step] /\ job[w] \in Job
      /\ JobFits(w)
  BY DEF RInv, TypeOK
<1>1. CASE Ready(w)
  <2> DEFINE expired == ExpiredRecords(job[w].msg, job[w].at)
             q == [lists EXCEPT ![job[w].msg].status = "Invalid"]
  <2>1. pc[w] = "ready" /\ pc[w] \in Claimed /\ {"put", "cancelClaim"} \subseteq Step
    BY <1>1 DEF Ready, Claimed, Step
  <2>2. CASE expired # {}
    <3> DEFINE j == [NoJob EXCEPT !.todo = expired, !.plan = <<"superseded", "invalid", "next">>]
    <3>1. /\ q \in Seq(Message) /\ DOMAIN q = DOMAIN lists
          /\ job[w].msg \in DOMAIN lists /\ q[job[w].msg].status = "Invalid"
          /\ HoldsLease(w) => \A i \in DOMAIN lists : Hopeless(lists[i]) => q[i] = lists[i]
      BY <2>1, ClaimedChange, Zenon DEF Status
    <3>2. expired \subseteq Reservation \X Nat /\ \A c \in expired : c[2] = job[w].msg
      BY <1>0, RecordsType DEF ExpiredRecords, Job
    <3>3. /\ SaveLists(w, q, "cancelClaim") /\ job' = [job EXCEPT ![w] = j]
          /\ UNCHANGED <<leaseVars, carries, record>>
      BY <1>1, <2>2 DEF Ready
    <3>4. j \in Job /\ j.todo = expired /\ j.plan \in Plans
      BY <3>2, NewJobs, Zenon DEF Job, Plans
    <3> HIDE DEF q, j, expired
    <3>5. /\ job' \in [Worker -> Job] /\ \A v \in Worker : v # w => job'[v] = job[v]
          /\ job'[w] = j
      BY <1>0, <3>3, <3>4
    <3>6. ASSUME HoldsLease(w) PROVE JobFits(w)'
      <4>1. lists' = q /\ pc'[w] = "cancelClaim"
        BY <1>0, <3>3, <3>6 DEF SaveLists, Goto
      <4>2. \A c \in expired : GivenUp(c[2])'
        BY <3>1, <3>2, <4>1 DEF GivenUp, Hopeless
      <4> QED
        BY <3>4, <3>5, <4>1, <4>2 DEF JobFits, Claimed, Cancelling
    <3>7. "cancelClaim" \notin Claimed
      BY DEF Claimed
    <3> QED
      BY <2>1, <3>1, <3>3, <3>5, <3>6, <3>7, SaveStep
  <2>3. CASE expired = {}
    <3>1. Goto(w, "put") /\ UNCHANGED <<leaseVars, storeVars, job>>
      BY <1>1, <2>3 DEF Ready, storeVars
    <3>2. Moves(w, "put")
      BY <1>0, <2>1, <3>1 DEF Moves, Goto
    <3>3. JobFits(w)'
      BY <1>0, <2>1, <3>1, <3>2 DEF JobFits, Moves, Claimed, Cancelling, storeVars
    <3> QED
      BY <2>1, <3>1, <3>2, <3>3, PlainStep
  <2> QED
    BY <2>2, <2>3
<1>2. CASE RecordOutcome(w)
  <2> DEFINE outcome == [sent |-> "Sent", failed |-> "Failed", broken |-> "RecoveryRequired"]
             q == [lists EXCEPT ![job[w].msg].status = outcome[pc[w]]]
             n == IF pc[w] = "broken" THEN "release" ELSE "superseded"
             x == IF pc[w] = "sent" THEN "next" ELSE "release"
  <2>1. pc[w] \in {"sent", "failed", "broken"} /\ pc[w] \in Claimed
    BY <1>2 DEF RecordOutcome, Claimed
  <2>2. outcome[pc[w]] \in Status
    BY <2>1 DEF Status
  <2>3. /\ q \in Seq(Message) /\ DOMAIN q = DOMAIN lists
        /\ HoldsLease(w) => \A i \in DOMAIN lists : Hopeless(lists[i]) => q[i] = lists[i]
    BY <2>1, <2>2, ClaimedChange
  <2>4. n \in Step \ Claimed /\ n \in {"release", "superseded"} /\ x \in {"next", "release"}
    BY DEF Step, Claimed
  <2>5. /\ SaveLists(w, q, n) /\ job' = [job EXCEPT ![w] = Cleaning(x)]
        /\ UNCHANGED <<leaseVars, carries, record>>
    BY <1>2 DEF RecordOutcome
  <2> HIDE DEF q, n, x
  <2>6. /\ job' \in [Worker -> Job] /\ \A v \in Worker : v # w => job'[v] = job[v]
        /\ job'[w].plan = <<"invalid", x>>
    BY <1>0, <2>4, <2>5, NewJobs
  <2>7. ASSUME HoldsLease(w) PROVE JobFits(w)'
    <3>1. pc'[w] = n
      BY <1>0, <2>5, <2>7 DEF SaveLists, Goto
    <3> QED
      BY <2>4, <2>6, <3>1 DEF JobFits, Claimed, Cancelling
  <2> QED
    BY <2>3, <2>4, <2>5, <2>6, <2>7, SaveStep
<1>3. ASSUME NEW o \in {"sent", "failed", "broken"}, Put(w, o) PROVE RInv'
  <2>1. /\ Goto(w, o) /\ pc[w] = "put" /\ UNCHANGED <<leaseVars, storeVars, job>>
    BY <1>3 DEF Put
  <2>2. o \in Step /\ "put" \in Claimed
    BY DEF Step, Claimed
  <2>3. Moves(w, o)
    BY <1>0, <2>1, <2>2 DEF Moves, Goto
  <2>4. JobFits(w)'
    BY <1>0, <2>1, <2>2, <2>3 DEF JobFits, Moves, Claimed, Cancelling, storeVars
  <2> QED
    BY <2>1, <2>2, <2>3, <2>4, PlainStep
<1> QED
  BY <1>1, <1>2, <1>3

\* The rounds of cancel_terminal_private_list_reservations.
LEMMA CancellingKeeps ==
  ASSUME RInv, NEW w \in Worker,
         \/ CleanSuperseded(w) \/ CleanInvalid(w) \/ Remove(w) \/ PassDone(w)
         \/ \E c \in job[w].todo : CancelClaim(w, c)
         \/ \E ok \in BOOLEAN : Cancel(w, ok)
  PROVE  RInv'
<1>0. /\ job \in [Worker -> Job] /\ pc \in [Worker -> Step] /\ job[w] \in Job /\ JobFits(w)
      /\ record \in [Reservation -> [msg : 0 .. Len(lists), started : BOOLEAN]]
      /\ DOMAIN lists \subseteq Nat
  BY QueueShape DEF RInv, TypeOK
<1>1. Cancelling \subseteq Step \ Claimed /\ {"superseded", "invalid", "next", "release"} \subseteq Step \ Claimed
  BY DEF Step, Claimed, Cancelling
<1>2. CASE CleanSuperseded(w) \/ CleanInvalid(w)
  <2>1. PICK I : /\ \A i \in I : GivenUp(i)
                 /\ job' = [job EXCEPT ![w].todo = UNION {RecordsOf(i) : i \in I}]
    <3>1. CASE CleanSuperseded(w)
      BY <3>1, Zenon DEF CleanSuperseded, GivenUp, Hopeless
    <3>2. CASE CleanInvalid(w)
      BY <3>2, Zenon DEF CleanInvalid, GivenUp, Hopeless
    <3> QED
      BY <1>2, <3>1, <3>2
  <2> DEFINE T == UNION {RecordsOf(i) : i \in I}
  <2>2. T \subseteq Reservation \X Nat /\ \A c \in T : GivenUp(c[2])
    <3>1. \A i \in I : i \in Nat
      BY <1>0, <2>1 DEF GivenUp
    <3> QED
      BY <2>1, <3>1, RecordsType
  <2> HIDE DEF T
  <2>3. /\ Goto(w, "cancelClaim") /\ UNCHANGED <<leaseVars, storeVars>>
        /\ job[w].plan \in Plans /\ job' = [job EXCEPT ![w].todo = T]
    BY <1>0, <1>2, <2>1 DEF CleanSuperseded, CleanInvalid, JobFits, Plans, T
  <2>4. /\ job' \in [Worker -> Job] /\ \A v \in Worker : v # w => job'[v] = job[v]
        /\ job'[w].todo = T /\ job'[w].plan = job[w].plan
    BY <1>0, <2>2, <2>3, Zenon DEF Job
  <2>5. Moves(w, "cancelClaim") /\ "cancelClaim" \in Step \ Claimed
    BY <1>0, <1>1, <2>3, <2>4 DEF Moves, Goto, Cancelling
  <2>6. JobFits(w)'
    <3>1. \A c \in T : GivenUp(c[2])'
      BY <2>2, <2>3 DEF GivenUp, storeVars
    <3> QED
      BY <2>3, <2>4, <2>5, <3>1 DEF JobFits, Moves, Claimed, Cancelling
  <2> QED
    BY <2>3, <2>5, <2>6, PlainStep
<1>3. ASSUME NEW c \in job[w].todo, CancelClaim(w, c) PROVE RInv'
  <2>1. pc[w] = "cancelClaim" /\ c \in Reservation \X Nat /\ GivenUp(c[2]) /\ job[w].plan \in Plans
    BY <1>0, <1>3 DEF CancelClaim, JobFits, Cancelling, Job
  <2>2. UNCHANGED <<leaseVars, lists, carries>>
    BY <1>3 DEF CancelClaim
  <2>3. CASE HoldsLease(w) /\ record[c[1]].msg = c[2]
    <3>1. /\ record' = [record EXCEPT ![c[1]].started = TRUE] /\ Goto(w, "cancel")
          /\ job' = [job EXCEPT ![w].todo = @ \ {c}, ![w].cur = c]
      BY <1>3, <2>3 DEF CancelClaim
    <3>2. /\ job' \in [Worker -> Job] /\ \A v \in Worker : v # w => job'[v] = job[v]
          /\ job'[w].todo \subseteq job[w].todo /\ job'[w].plan = job[w].plan /\ job'[w].cur = c
      BY <1>0, <2>1, <3>1, Zenon DEF Job
    <3>3. Moves(w, "cancel") /\ "cancel" \in Step \ Claimed
      BY <1>0, <1>1, <3>1, <3>2 DEF Moves, Goto, Cancelling
    <3>4. JobFits(w)'
      <4>1. \A d \in job'[w].todo : GivenUp(d[2])'
        BY <1>0, <2>1, <2>2, <3>2 DEF GivenUp, JobFits, Cancelling
      <4> QED
        BY <2>1, <3>2, <3>3, <4>1 DEF JobFits, Moves, Claimed, Cancelling
    <3>5. c[1] \in Reservation
      BY <2>1
    <3>6. /\ record' \in [Reservation -> [msg : 0 .. Len(lists), started : BOOLEAN]]
          /\ \A r \in Reservation : record'[r].msg = record[r].msg
          /\ \A r \in Reservation : r # c[1] => record'[r] = record[r]
      BY <1>0, <3>1, <3>5, Zenon
    <3>7. \A r \in Reservation : record'[r].started => GivenUp(record'[r].msg)
      BY <2>1, <2>3, <3>6 DEF RInv, StartedIsHopeless
    <3> QED
      BY <2>2, <3>3, <3>4, <3>6, <3>7, RecordStep
  <2>4. CASE ~(HoldsLease(w) /\ record[c[1]].msg = c[2])
    <3>1. job' = [job EXCEPT ![w].todo = @ \ {c}] /\ UNCHANGED <<record, pc>>
      BY <1>3, <2>4 DEF CancelClaim
    <3>2. /\ job' \in [Worker -> Job] /\ \A v \in Worker : v # w => job'[v] = job[v]
          /\ job'[w].todo \subseteq job[w].todo /\ job'[w].plan = job[w].plan
      BY <1>0, <3>1, Zenon DEF Job
    <3>3. Moves(w, "cancelClaim") /\ "cancelClaim" \in Step \ Claimed
      BY <1>0, <1>1, <2>1, <3>1, <3>2 DEF Moves, Cancelling
    <3>4. JobFits(w)'
      <4>1. \A d \in job'[w].todo : GivenUp(d[2])'
        BY <1>0, <2>1, <2>2, <3>2 DEF GivenUp, JobFits, Cancelling
      <4> QED
        BY <2>1, <3>2, <3>3, <4>1 DEF JobFits, Moves, Claimed, Cancelling
    <3> QED
      BY <2>2, <3>1, <3>3, <3>4, PlainStep DEF storeVars
  <2> QED
    BY <2>3, <2>4
<1>4. ASSUME NEW ok \in BOOLEAN, Cancel(w, ok) PROVE RInv'
  <2> DEFINE n == IF ok THEN "remove" ELSE "cancelClaim"
  <2>1. /\ pc[w] = "cancel" /\ Goto(w, n) /\ UNCHANGED <<leaseVars, storeVars>>
        /\ job' = IF ok THEN job ELSE [job EXCEPT ![w].cur = <<>>]
    BY <1>4 DEF Cancel
  <2>2. n \in Cancelling /\ (n = "remove" => ok) /\ n # "cancel"
    BY DEF Cancelling
  <2> HIDE DEF n
  <2>3. /\ job' \in [Worker -> Job] /\ \A v \in Worker : v # w => job'[v] = job[v]
        /\ job'[w].todo = job[w].todo /\ job'[w].plan = job[w].plan
        /\ ok => job'[w].cur = job[w].cur
    BY <1>0, <2>1, Zenon DEF Job
  <2>4. Moves(w, n)
    BY <1>0, <1>1, <2>1, <2>2, <2>3 DEF Moves, Goto
  <2>5. JobFits(w)'
    <3>1. \A d \in job'[w].todo : GivenUp(d[2])'
      BY <1>0, <2>1, <2>3 DEF GivenUp, JobFits, Cancelling, storeVars
    <3> QED
      BY <1>0, <2>1, <2>2, <2>3, <2>4, <3>1 DEF JobFits, Moves, Claimed, Cancelling
  <2> QED
    BY <1>1, <2>1, <2>2, <2>4, <2>5, PlainStep
<1>5. CASE Remove(w)
  <2> DEFINE c == job[w].cur
  <2>1. pc[w] = "remove" /\ c \in Reservation \X Nat /\ job[w].plan \in Plans
    BY <1>0, <1>5 DEF Remove, JobFits, Cancelling
  <2>2. /\ record' = IF record[c[1]] = [msg |-> c[2], started |-> TRUE]
                     THEN [record EXCEPT ![c[1]] = NoRecord] ELSE record
        /\ Goto(w, "cancelClaim") /\ job' = [job EXCEPT ![w].cur = <<>>]
        /\ UNCHANGED <<leaseVars, lists, carries>>
    BY <1>5 DEF Remove
  <2>3. /\ job' \in [Worker -> Job] /\ \A v \in Worker : v # w => job'[v] = job[v]
        /\ job'[w].todo = job[w].todo /\ job'[w].plan = job[w].plan
    BY <1>0, <2>2, Zenon DEF Job
  <2>4. Moves(w, "cancelClaim") /\ "cancelClaim" \in Step \ Claimed
    BY <1>0, <1>1, <2>2, <2>3 DEF Moves, Goto, Cancelling
  <2>5. JobFits(w)'
    <3>1. \A d \in job'[w].todo : GivenUp(d[2])'
      BY <1>0, <2>1, <2>2, <2>3 DEF GivenUp, JobFits, Cancelling
    <3> QED
      BY <2>1, <2>3, <2>4, <3>1 DEF JobFits, Moves, Claimed, Cancelling
  <2>6. c[1] \in Reservation /\ NoRecord \in [msg : 0 .. Len(lists), started : BOOLEAN]
    <3>1. Len(lists) \in Nat
      BY QueueShape DEF RInv, TypeOK
    <3> QED
      BY <2>1, <3>1 DEF NoRecord
  <2> HIDE DEF c
  <2>7. /\ record' \in [Reservation -> [msg : 0 .. Len(lists), started : BOOLEAN]]
        /\ \A r \in Reservation : record'[r] = record[r] \/ record'[r] = NoRecord
    BY <1>0, <2>2, <2>6
  <2>8. /\ \A r \in Reservation : record'[r].msg # 0 => record'[r].msg = record[r].msg
        /\ \A r \in Reservation : record'[r].started => GivenUp(record'[r].msg)
    BY <2>7 DEF NoRecord, RInv, StartedIsHopeless
  <2> QED
    BY <2>2, <2>4, <2>5, <2>7, <2>8, RecordStep, Zenon
<1>6. CASE PassDone(w)
  <2> DEFINE p == job[w].plan
  <2>1. pc[w] = "cancelClaim" /\ p \in Plans
    BY <1>0, <1>6 DEF PassDone, JobFits, Cancelling
  <2>2. /\ Goto(w, Head(p)) /\ job' = [job EXCEPT ![w].plan = Tail(@)]
        /\ UNCHANGED <<leaseVars, storeVars>>
    BY <1>6 DEF PassDone
  <2>3. /\ Head(p) \in {"superseded", "invalid", "next", "release"} /\ Tail(p) \in {<<>>} \cup Plans
        /\ Head(p) = "superseded" => Tail(p) \in {<<"invalid", "next">>}
        /\ Head(p) = "invalid" => Tail(p) \in {<<"next">>, <<"release">>}
    BY <2>1, PlanParts, Zenon
  <2>4. job' = [job EXCEPT ![w] = [job[w] EXCEPT !.plan = Tail(p)]]
    BY <2>2
  <2> DEFINE h == Head(p)
             t == Tail(p)
  <2> HIDE DEF h, t
  <2>5. /\ job' \in [Worker -> Job] /\ \A v \in Worker : v # w => job'[v] = job[v]
        /\ job'[w].plan = t
    BY <1>0, <2>3, <2>4, Zenon DEF Job, t
  <2>6. Moves(w, h) /\ h \in Step \ Claimed
    BY <1>0, <1>1, <2>2, <2>3, <2>5 DEF Moves, Goto, h
  <2>7. JobFits(w)'
    BY <2>3, <2>5, <2>6 DEF JobFits, Moves, Claimed, Cancelling, h, t
  <2> QED
    BY <2>2, <2>6, <2>7, PlainStep
<1> QED
  BY <1>2, <1>3, <1>4, <1>5, <1>6

----------------------------------------------------------------------------
\* The invariant holds at the start.
LEMMA InvInit == Init => RInv
<1> SUFFICES ASSUME Init PROVE RInv
  OBVIOUS
<1>1. lists = <<>> /\ carries = <<>> /\ <<>> \in Seq(Message) /\ <<>> \in Seq(SUBSET Reservation) /\ Len(lists) = 0
  BY EmptySeq DEF Init
<1>2. LeaseTypeOK /\ LeaseUnique
  BY DEF Init, LeaseInit, LeaseTypeOK, LeaseUnique, NoLease
<1>3. /\ record \in [Reservation -> [msg : 0 .. 0, started : BOOLEAN]]
      /\ \A r \in Reservation : record[r].msg = 0 /\ ~record[r].started
  BY DEF Init, NoRecord
<1>4. pc \in [Worker -> Step] /\ job \in [Worker -> Job] /\ \A w \in Worker : pc[w] = "idle"
  BY NewJobs DEF Init, Step
<1>5. TypeOK
  BY <1>1, <1>2, <1>3, <1>4 DEF TypeOK
<1>6. \A w \in Worker : JobFits(w)
  BY <1>4 DEF JobFits, Claimed, Cancelling
<1>7. ClaimIsSending
  BY <1>4 DEF ClaimIsSending, Claimed
<1>8. ReservationBackupRestores /\ StartedIsHopeless
  BY <1>3 DEF ReservationBackupRestores, validate_payment_endpoint_reservations, StartedIsHopeless
<1> QED
  BY <1>2, <1>4, <1>5, <1>6, <1>7, <1>8 DEF RInv

\* Every step keeps it.
LEMMA InvNext == RInv /\ [Next]_vars => RInv'
<1> SUFFICES ASSUME RInv, [Next]_vars PROVE RInv'
  OBVIOUS
<1>1. ASSUME UNCHANGED <<leaseVars, storeVars, pc, job>> PROVE RInv'
  BY <1>1 DEF RInv, leaseVars, storeVars, TypeOK, LeaseTypeOK, JobFits, GivenUp, ClaimIsSending,
     HoldsLease, LeaseUnique, ReservationBackupRestores, validate_payment_endpoint_reservations,
     StartedIsHopeless
<1>2. CASE Tick
  <2>1. lists' = lists /\ carries' = carries /\ record' = record /\ pc' = pc /\ job' = job
    BY <1>2 DEF Tick, storeVars
  <2>2. /\ now \in Nat /\ now' = now + 1 /\ lease' = lease /\ leaseSeq' = leaseSeq /\ held' = held
    BY <1>2 DEF Tick, AdvanceClock, RInv, TypeOK, LeaseTypeOK
  <2>3. TypeOK' /\ LeaseUnique' /\ ClaimIsSending'
    BY <2>1, <2>2 DEF RInv, TypeOK, LeaseTypeOK, LeaseUnique, ClaimIsSending, HoldsLease
  <2>4. \A w \in Worker : JobFits(w)'
    BY <2>1 DEF RInv, JobFits, GivenUp
  <2>5. ReservationBackupRestores' /\ StartedIsHopeless' /\ job' \in [Worker -> Job]
    BY <2>1 DEF RInv, ReservationBackupRestores, validate_payment_endpoint_reservations,
       StartedIsHopeless, GivenUp
  <2> QED
    BY <2>3, <2>4, <2>5 DEF RInv
<1>3. CASE Quiet \/ UNCHANGED vars
  BY <1>1, <1>3 DEF Quiet, vars
<1>4. ASSUME NEW w \in Worker, WorkerStep(w) PROVE RInv'
  BY <1>4, QueueingKeeps, LeasingKeeps, QueueListKeeps, ClaimNextKeeps, SendingKeeps,
     CancellingKeeps, Zenon DEF WorkerStep
<1>5. ASSUME NEW w \in Worker,
             (\E o \in DOMAIN FirstStep, S \in Offered : Begin(w, o, S)) \/ Crash(w)
      PROVE  RInv'
  BY <1>5, QueueingKeeps, LeasingKeeps, Zenon
<1> QED
  BY <1>2, <1>3, <1>4, <1>5 DEF Next

(***************************************************************************)
(* Type correctness of the lists, what they carry, the reservation records *)
(* and the workers, for any number of leases and lists.                    *)
(***************************************************************************)
THEOREM ReservationsTypeTheorem == Spec => []TypeOK
<1>1. RInv => TypeOK
  BY DEF RInv
<1> QED
  BY <1>1, InvInit, InvNext, PTL DEF Spec

(***************************************************************************)
(* However many workers queue, send and cancel lists at the same time, and *)
(* wherever one of them stops, the reservation records are ones that       *)
(* validate_payment_endpoint_reservations accepts when a backup is         *)
(* restored.                                                               *)
(***************************************************************************)
THEOREM ReservationBackupTheorem == Spec => []ReservationBackupRestores
<1>1. RInv => ReservationBackupRestores
  BY DEF RInv
<1> QED
  BY <1>1, InvInit, InvNext, PTL DEF Spec

(***************************************************************************)
(* claim_reservation_cancellation starts a cancellation only for a record  *)
(* whose list is Invalid or was superseded before any attempt, and the     *)
(* list stays so: no record under cancellation belongs to a list that is   *)
(* sent, by whatever worker, with whatever lease.                          *)
(***************************************************************************)
THEOREM StartedTheorem == Spec => []StartedIsGivenUp
<1>1. RInv => StartedIsGivenUp
  BY DEF RInv, StartedIsHopeless, GivenUp, Hopeless, StartedIsGivenUp
<1> QED
  BY <1>1, InvInit, InvNext, PTL DEF Spec

----------------------------------------------------------------------------
(* No reservation is leaked.                                              *)

\* The steps at which a call carries reservations it has to queue or give back.
Carrying == {"queue", "allowed", "insert", "undo", "undoCancel"}

Accounted(r) ==
  record[r].msg # 0 \/ r \in abandoned \/ \E w \in Worker : r \in job[w].hand

\* Nobody else carries a reservation; a record is removed after the adapter cancelled.
HandFits(w) ==
  /\ pc[w] \notin Carrying => job[w].hand = {}
  /\ pc[w] = "remove" => job[w].cur[1] \in cancelled

\* The inductive invariant, on top of RInv.
LInv ==
  /\ reserved \subseteq Reservation /\ reserved \cap cancelled = {}
  /\ \A r \in reserved : Accounted(r)
  /\ \A w \in Worker : HandFits(w)

(***************************************************************************)
(* A worker's step leaks nothing when what it carried is still accounted   *)
(* for and no record of a reservation the adapter holds disappears.        *)
(***************************************************************************)
LEMMA HandStep ==
  ASSUME LInv, NEW w \in Worker, HandFits(w)',
         \A v \in Worker : v # w => pc'[v] = pc[v] /\ job'[v] = job[v],
         cancelled \subseteq cancelled', abandoned \subseteq abandoned',
         reserved' \subseteq Reservation, reserved' \cap cancelled' = {},
         \A r \in reserved' : r \in reserved \/ r \in job'[w].hand,
         \A r \in reserved' : record[r].msg # 0 => record'[r].msg # 0,
         \A r \in reserved' : r \in job[w].hand => Accounted(r)'
  PROVE  LInv'
<1>1. ASSUME NEW r \in reserved' PROVE Accounted(r)'
  <2>1. CASE r \in job'[w].hand
    BY <2>1 DEF Accounted
  <2>2. CASE r \in reserved /\ record[r].msg # 0
    BY <1>1, <2>2 DEF Accounted
  <2>3. CASE r \in reserved /\ r \in abandoned
    BY <2>3 DEF Accounted
  <2>4. CASE r \in reserved /\ \E v \in Worker : r \in job[v].hand
    <3>1. PICK v \in Worker : r \in job[v].hand
      BY <2>4
    <3>2. CASE v = w
      BY <1>1, <3>1, <3>2
    <3>3. CASE v # w
      BY <3>1, <3>3 DEF Accounted
    <3> QED
      BY <3>2, <3>3
  <2> QED
    BY <1>1, <2>1, <2>2, <2>3, <2>4 DEF LInv, Accounted
<1>2. \A v \in Worker : HandFits(v)'
  <2>1. ASSUME NEW v \in Worker, v # w PROVE HandFits(v)'
    BY <2>1 DEF LInv, HandFits
  <2> QED
    BY <2>1
<1> QED
  BY <1>1, <1>2 DEF LInv

(***************************************************************************)
(* A step of a call that carries nothing, before and after.                *)
(***************************************************************************)
LEMMA EmptyHanded ==
  ASSUME RInv, LInv, NEW w \in Worker, NEW n, pc' = [pc EXCEPT ![w] = n],
         pc[w] \notin Carrying, n \notin Carrying, n # "remove",
         job'[w].hand = {} \/ job'[w].hand = job[w].hand,
         \A v \in Worker : v # w => job'[v] = job[v],
         UNCHANGED <<adapterVars, abandoned>>,
         \A r \in Reservation : record[r].msg # 0 => record'[r].msg # 0
  PROVE  LInv'
<1>1. pc \in [Worker -> Step]
  BY DEF RInv, TypeOK
<1>2. reserved' = reserved /\ cancelled' = cancelled /\ abandoned' = abandoned
  BY SMTT(20) DEF adapterVars
<1>3. job[w].hand = {} /\ job'[w].hand = {}
  BY DEF LInv, HandFits
<1>4. HandFits(w)'
  BY <1>1, <1>3 DEF HandFits
<1>5. \A v \in Worker : v # w => pc'[v] = pc[v] /\ job'[v] = job[v]
  BY <1>1
<1> QED
  BY <1>2, <1>3, <1>4, <1>5, HandStep DEF LInv

(***************************************************************************)
(* A step of a call that goes on carrying what it has.                     *)
(***************************************************************************)
LEMMA StillCarrying ==
  ASSUME RInv, LInv, NEW w \in Worker, NEW n, pc' = [pc EXCEPT ![w] = n], n \in Carrying,
         UNCHANGED <<adapterVars, abandoned, record, job>>
  PROVE  LInv'
<1>1. pc \in [Worker -> Step]
  BY DEF RInv, TypeOK
<1>2. reserved' = reserved /\ cancelled' = cancelled /\ abandoned' = abandoned
  BY DEF adapterVars
<1>3. HandFits(w)'
  BY <1>1 DEF HandFits, Carrying
<1>4. \A v \in Worker : v # w => pc'[v] = pc[v] /\ job'[v] = job[v]
  BY <1>1
<1>5. \A r : Accounted(r) => Accounted(r)'
  BY <1>2 DEF Accounted
<1> QED
  BY <1>2, <1>3, <1>4, <1>5, HandStep DEF LInv

\* Calls begin, take the lease or do not, end, or die.
LEMMA NoLeakOfCall ==
  ASSUME RInv, LInv, NEW w \in Worker,
         \/ Claim(w) \/ ClaimRefused(w) \/ Release(w) \/ Crash(w)
         \/ \E o \in DOMAIN FirstStep, S \in Offered : Begin(w, o, S)
  PROVE  LInv'
<1>0. /\ job \in [Worker -> Job] /\ pc \in [Worker -> Step] /\ job[w] \in Job
      /\ HandFits(w) /\ reserved \subseteq Reservation /\ reserved \cap cancelled = {}
  BY DEF RInv, TypeOK, LInv
<1>1. CASE Claim(w)
  <2>1. pc[w] \in {"queue", "reserve", "send", "cleanup"} /\ pc' = [pc EXCEPT ![w] = FirstStep[pc[w]]]
    BY <1>1 DEF Claim, FirstStep, Goto
  <2>2. CASE pc[w] = "queue"
    <3>1. FirstStep[pc[w]] = "allowed" /\ job' = job /\ UNCHANGED <<adapterVars, abandoned, record>>
      BY <1>1, <2>2 DEF Claim, FirstStep, storeVars, history
    <3> QED
      BY <2>1, <3>1, StillCarrying, Zenon DEF Carrying
  <2>3. CASE pc[w] # "queue"
    <3>1. FirstStep[pc[w]] \in {"ask", "next", "superseded"} /\ pc[w] \notin Carrying
      BY <2>1, <2>3 DEF FirstStep, Carrying
    <3>2. /\ job'[w].hand = {} \/ job'[w].hand = job[w].hand
          /\ \A v \in Worker : v # w => job'[v] = job[v]
      BY <1>0, <1>1 DEF Claim, Cleaning, NoJob
    <3>3. UNCHANGED <<adapterVars, abandoned>> /\ record' = record
      BY <1>1 DEF Claim, storeVars, history
    <3>4. FirstStep[pc[w]] \notin Carrying /\ FirstStep[pc[w]] # "remove"
      BY <3>1 DEF Carrying
    <3> QED
      BY <2>1, <3>1, <3>2, <3>3, <3>4, EmptyHanded, ZenonT(30)
  <2> QED
    BY <2>2, <2>3
<1>2. CASE ClaimRefused(w)
  <2>1. /\ pc[w] \in {"queue", "reserve", "send", "cleanup"}
        /\ UNCHANGED <<adapterVars, abandoned, record, job>>
    BY <1>2 DEF ClaimRefused, FirstStep, storeVars, history
  <2>2. CASE pc[w] = "queue"
    <3>1. pc' = [pc EXCEPT ![w] = "undo"]
      BY <1>2, <2>2 DEF ClaimRefused, Goto
    <3> QED
      BY <2>1, <3>1, StillCarrying, Zenon DEF Carrying
  <2>3. CASE pc[w] # "queue"
    <3>1. pc' = [pc EXCEPT ![w] = "idle"] /\ pc[w] \notin Carrying /\ "idle" \notin Carrying
      BY <1>2, <2>1, <2>3 DEF ClaimRefused, Goto, Carrying
    <3> QED
      BY <2>1, <3>1, EmptyHanded, Zenon
  <2> QED
    BY <2>2, <2>3
<1>3. CASE Release(w)
  <2>1. /\ pc[w] \notin Carrying /\ "idle" \notin Carrying /\ pc' = [pc EXCEPT ![w] = "idle"]
        /\ UNCHANGED <<adapterVars, abandoned, record>>
    BY <1>3, SMTT(20) DEF Release, Goto, Carrying, storeVars, history
  <2>2. job'[w].hand = {} /\ \A v \in Worker : v # w => job'[v] = job[v]
    BY <1>0, <1>3, SMTT(20) DEF Release, NoJob
  <2> QED
    BY <2>1, <2>2, EmptyHanded, Zenon
<1>4. CASE Crash(w)
  <2>1. /\ pc' = [pc EXCEPT ![w] = "idle"] /\ job' = [job EXCEPT ![w] = NoJob]
        /\ abandoned' = abandoned \cup job[w].hand
        /\ reserved' = reserved /\ cancelled' = cancelled /\ record' = record
    BY <1>4, Zenon DEF Crash, Goto, storeVars, adapterVars
  <2>2. /\ pc'[w] = "idle" /\ job'[w].hand = {}
        /\ \A v \in Worker : v # w => pc'[v] = pc[v] /\ job'[v] = job[v]
    BY <1>0, <2>1, SMTT(20) DEF NoJob
  <2>3. HandFits(w)'
    BY <2>2 DEF HandFits
  <2>4. \A r \in job[w].hand : Accounted(r)'
    BY <2>1, Zenon DEF Accounted
  <2> QED
    BY <1>0, <2>1, <2>2, <2>3, <2>4, HandStep
<1>5. ASSUME NEW o \in DOMAIN FirstStep, NEW S \in Offered, Begin(w, o, S) PROVE LInv'
  <2>1. /\ o \in {"queue", "reserve", "send", "cleanup"} /\ (o # "queue" => S = {})
        /\ pc[w] = "idle" /\ pc' = [pc EXCEPT ![w] = o] /\ job' = [job EXCEPT ![w].hand = S]
        /\ reserved' = reserved \cup S /\ cancelled' = cancelled /\ abandoned' = abandoned
        /\ record' = record
    BY <1>5, SMTT(20) DEF Begin, Goto, FirstStep, storeVars, history
  <2>2. S \subseteq Reservation /\ S \cap cancelled = {}
    BY DEF Offered
  <2>3. /\ pc'[w] = o /\ job'[w].hand = S /\ job[w].hand = {}
        /\ \A v \in Worker : v # w => pc'[v] = pc[v] /\ job'[v] = job[v]
    BY <1>0, <2>1 DEF Job, HandFits, Carrying
  <2>4. HandFits(w)'
    BY <2>1, <2>3 DEF HandFits, Carrying
  <2> QED
    BY <1>0, <2>1, <2>2, <2>3, <2>4, HandStep
<1> QED
  BY <1>1, <1>2, <1>3, <1>4, <1>5

\* Reservations get a record, or are given back to the adapter.
LEMMA NoLeakOfQueueing ==
  ASSUME RInv, LInv, NEW w \in Worker,
         \/ QueueAllowed(w) \/ QueueNotAllowed(w) \/ UndoDone(w) \/ QueueList(w)
         \/ \E S \in Offered : Reserve(w, S)
         \/ \E r \in Reservation : Undo(w, r)
         \/ \E ok \in BOOLEAN : UndoCancel(w, ok)
  PROVE  LInv'
<1>0. /\ job \in [Worker -> Job] /\ pc \in [Worker -> Step] /\ job[w] \in Job
      /\ HandFits(w) /\ reserved \subseteq Reservation /\ reserved \cap cancelled = {}
      /\ lists \in Seq(Message)
  BY DEF RInv, TypeOK, LInv
<1>1. CASE QueueAllowed(w) \/ QueueNotAllowed(w)
  <2>1. PICK n \in Carrying : pc' = [pc EXCEPT ![w] = n]
    BY <1>1 DEF QueueAllowed, QueueNotAllowed, Goto, Carrying
  <2> QED
    BY <1>1, <2>1, StillCarrying, Zenon DEF QueueAllowed, QueueNotAllowed, storeVars, history
<1>2. CASE UndoDone(w)
  <2>1. /\ job[w].hand = {} /\ pc' = [pc EXCEPT ![w] = "release"] /\ job' = job
        /\ record' = record /\ reserved' = reserved /\ cancelled' = cancelled /\ abandoned' = abandoned
    BY <1>2, Zenon DEF UndoDone, Goto, storeVars, adapterVars, history
  <2>2. pc'[w] = "release" /\ \A v \in Worker : v # w => pc'[v] = pc[v] /\ job'[v] = job[v]
    BY <1>0, <2>1
  <2>3. HandFits(w)'
    BY <2>1, <2>2 DEF HandFits
  <2> QED
    BY <1>0, <2>1, <2>2, <2>3, HandStep, Zenon
<1>3. CASE QueueList(w)
  <2> DEFINE S == job[w].hand
  <2>1. CASE HoldsLease(w) /\ \A r \in S : ~record[r].started
    <3>1. /\ lists' = Append(lists, NewMessage("list", Never))
          /\ record' = build_reservation_records(S, Len(lists'))
          /\ job' = [job EXCEPT ![w].hand = {}] /\ pc' = [pc EXCEPT ![w] = "release"]
          /\ reserved' = reserved /\ cancelled' = cancelled /\ abandoned' = abandoned
      BY <1>3, <2>1 DEF QueueList, Goto, adapterVars, history
    <3>2. Len(lists') \in Nat /\ Len(lists') # 0
      BY <1>0, <3>1, QueueShape, AppendProperties DEF NewMessage, Message, Status, Never
    <3>3. /\ pc'[w] = "release" /\ job'[w].hand = {}
          /\ \A v \in Worker : v # w => pc'[v] = pc[v] /\ job'[v] = job[v]
      BY <1>0, <3>1 DEF Job
    <3>4. HandFits(w)'
      BY <3>3 DEF HandFits
    <3>5. /\ \A r \in Reservation : r \in S => record'[r].msg # 0
          /\ \A r \in Reservation : record[r].msg # 0 => record'[r].msg # 0
      BY <3>1, <3>2, SMTT(20) DEF build_reservation_records
    <3>6. \A r \in reserved : r \in S => Accounted(r)'
      BY <1>0, <3>5 DEF Accounted
    <3> QED
      BY <1>0, <3>1, <3>3, <3>4, <3>5, <3>6, HandStep
  <2>2. CASE ~(HoldsLease(w) /\ \A r \in S : ~record[r].started)
    <3>1. pc' = [pc EXCEPT ![w] = "undo"] /\ UNCHANGED <<adapterVars, abandoned, record, job>>
      BY <1>3, <2>2 DEF QueueList, Goto, storeVars, history
    <3> QED
      BY <3>1, StillCarrying, Zenon DEF Carrying
  <2> QED
    BY <2>1, <2>2, Zenon
<1>4. ASSUME NEW S \in Offered, Reserve(w, S) PROVE LInv'
  <2>1. /\ pc[w] = "ask" /\ pc' = [pc EXCEPT ![w] = "insert"] /\ job' = [job EXCEPT ![w].hand = S]
        /\ reserved' = reserved \cup S /\ cancelled' = cancelled /\ abandoned' = abandoned
        /\ record' = record
    BY <1>4 DEF Reserve, Goto, storeVars, history
  <2>2. S \subseteq Reservation /\ S \cap cancelled = {}
    BY DEF Offered
  <2>3. /\ pc'[w] = "insert" /\ job'[w].hand = S /\ job[w].hand = {}
        /\ \A v \in Worker : v # w => pc'[v] = pc[v] /\ job'[v] = job[v]
    BY <1>0, <2>1, SMTT(20) DEF Job, HandFits, Carrying
  <2>4. HandFits(w)'
    BY <2>3 DEF HandFits, Carrying
  <2> QED
    BY <1>0, <2>1, <2>2, <2>3, <2>4, HandStep
<1>5. ASSUME NEW r \in Reservation, Undo(w, r) PROVE LInv'
  <2>1. /\ pc[w] = "undo" /\ record' = record
        /\ reserved' = reserved /\ cancelled' = cancelled /\ abandoned' = abandoned
    BY <1>5 DEF Undo, storeVars, adapterVars, history
  <2>2. CASE record[r].msg # 0
    <3>1. job' = [job EXCEPT ![w].hand = @ \ {r}] /\ pc' = pc
      BY <1>5, <2>2 DEF Undo
    <3>2. /\ job'[w].hand = job[w].hand \ {r}
          /\ \A v \in Worker : v # w => pc'[v] = pc[v] /\ job'[v] = job[v]
      BY <1>0, <3>1 DEF Job
    <3>3. HandFits(w)'
      BY <2>1, <3>1 DEF HandFits, Carrying
    <3>4. \A x \in job[w].hand : Accounted(x)'
      BY <2>1, <2>2, <3>2 DEF Accounted
    <3> QED
      BY <1>0, <2>1, <3>2, <3>3, <3>4, HandStep, Zenon
  <2>3. CASE record[r].msg = 0
    <3>1. job' = [job EXCEPT ![w].cur = <<r, 0>>] /\ pc' = [pc EXCEPT ![w] = "undoCancel"]
      BY <1>5, <2>3 DEF Undo, Goto
    <3>2. /\ job'[w].hand = job[w].hand /\ pc'[w] = "undoCancel"
          /\ \A v \in Worker : v # w => pc'[v] = pc[v] /\ job'[v] = job[v]
      BY <1>0, <3>1 DEF Job
    <3>3. HandFits(w)'
      BY <3>2, SMTT(20) DEF HandFits, Carrying
    <3>4. \A x \in job[w].hand : Accounted(x)'
      BY <3>2 DEF Accounted
    <3> QED
      BY <1>0, <2>1, <3>2, <3>3, <3>4, HandStep, Zenon
  <2> QED
    BY <2>2, <2>3
<1>6. ASSUME NEW ok \in BOOLEAN, UndoCancel(w, ok) PROVE LInv'
  <2> DEFINE r == job[w].cur[1]
  <2>1. /\ pc[w] = "undoCancel" /\ pc' = [pc EXCEPT ![w] = "undo"] /\ record' = record
        /\ job' = [job EXCEPT ![w].cur = <<>>, ![w].hand = @ \ {r}]
        /\ reserved' = (IF ok THEN reserved \ {r} ELSE reserved)
        /\ cancelled' = (IF ok THEN cancelled \cup {r} ELSE cancelled)
        /\ abandoned' = (IF ok THEN abandoned ELSE abandoned \cup {r})
    BY <1>6 DEF UndoCancel, AdapterCancel, Goto, storeVars
  <2> HIDE DEF r
  <2>2. /\ job'[w].hand = job[w].hand \ {r} /\ pc'[w] = "undo"
        /\ \A v \in Worker : v # w => pc'[v] = pc[v] /\ job'[v] = job[v]
    BY <1>0, <2>1 DEF Job
  <2>3. HandFits(w)'
    BY <2>2, Zenon DEF HandFits, Carrying
  <2>4. \A x \in reserved' : x \in job[w].hand => Accounted(x)'
    BY <2>1, <2>2, Zenon DEF Accounted
  <2>5. /\ cancelled \subseteq cancelled' /\ abandoned \subseteq abandoned'
        /\ reserved' \subseteq reserved /\ reserved' \cap cancelled' = {}
    BY <1>0, <2>1
  <2> QED
    BY <1>0, <2>1, <2>2, <2>3, <2>4, <2>5, HandStep
<1> QED
  BY <1>1, <1>2, <1>3, <1>4, <1>5, <1>6

\* Sending and the choice of what to cancel touch no reservation.
LEMMA NoLeakOfSending ==
  ASSUME RInv, LInv, NEW w \in Worker,
         \/ ClaimNext(w) \/ Ready(w) \/ RecordOutcome(w)
         \/ \E o \in {"sent", "failed", "broken"} : Put(w, o)
         \/ CleanSuperseded(w) \/ CleanInvalid(w)
         \/ \E c \in job[w].todo : CancelClaim(w, c)
         \/ PassDone(w)
  PROVE  LInv'
<1>0. job \in [Worker -> Job] /\ pc \in [Worker -> Step] /\ job[w] \in Job /\ JobFits(w)
  BY DEF RInv, TypeOK
<1> DEFINE Empty == {"release", "ready", "superseded", "cancelClaim", "put", "sent", "failed",
                     "broken", "cancel", "invalid", "next"}
<1>1. \A n \in Empty : n \notin Carrying /\ n # "remove"
  BY DEF Carrying
<1>2. ASSUME NEW n \in Empty, pc' = [pc EXCEPT ![w] = n], pc[w] \notin Carrying,
             job'[w].hand = {} \/ job'[w].hand = job[w].hand,
             \A v \in Worker : v # w => job'[v] = job[v],
             UNCHANGED <<adapterVars, history, record>>
      PROVE  LInv'
  BY <1>1, <1>2, EmptyHanded, Zenon DEF history
<1> HIDE DEF Empty
<1>3. ASSUME NEW q, NEW n \in Empty, SaveLists(w, q, n)
      PROVE  \E m \in Empty : pc' = [pc EXCEPT ![w] = m]
  BY <1>3 DEF SaveLists, Goto, Empty
<1>4. CASE ClaimNext(w)
  <2>1. \E m \in Empty : pc' = [pc EXCEPT ![w] = m]
    <3>1. "ready" \in Empty /\ "superseded" \in Empty
      BY DEF Empty
    <3> QED
      BY <1>3, <1>4, <3>1 DEF ClaimNext
  <2>2. /\ job'[w].hand = {} \/ job'[w].hand = job[w].hand
        /\ \A v \in Worker : v # w => job'[v] = job[v]
    BY <1>0, <1>4, ZenonT(30) DEF ClaimNext, Cleaning, NoJob, Job
  <2>3. pc[w] \notin Carrying /\ UNCHANGED <<adapterVars, history, record>>
    BY <1>4 DEF ClaimNext, Carrying
  <2> QED
    BY <1>2, <2>1, <2>2, <2>3, Zenon
<1>5. CASE Ready(w)
  <2>1. \E m \in Empty : pc' = [pc EXCEPT ![w] = m]
    <3>1. "put" \in Empty /\ "cancelClaim" \in Empty
      BY DEF Empty
    <3> QED
      BY <1>3, <1>5, <3>1 DEF Ready, Goto
  <2>2. /\ job'[w].hand = {} \/ job'[w].hand = job[w].hand
        /\ \A v \in Worker : v # w => job'[v] = job[v]
    BY <1>0, <1>5, Zenon DEF Ready, NoJob
  <2>3. pc[w] \notin Carrying /\ UNCHANGED <<adapterVars, history, record>>
    BY <1>5 DEF Ready, Carrying
  <2> QED
    BY <1>2, <2>1, <2>2, <2>3, Zenon
<1>6. CASE RecordOutcome(w)
  <2>1. \E m \in Empty : pc' = [pc EXCEPT ![w] = m]
    <3>1. (IF pc[w] = "broken" THEN "release" ELSE "superseded") \in Empty
      BY DEF Empty
    <3> QED
      BY <1>3, <1>6, <3>1 DEF RecordOutcome
  <2>2. job'[w].hand = {} /\ \A v \in Worker : v # w => job'[v] = job[v]
    BY <1>0, <1>6 DEF RecordOutcome, Cleaning, NoJob
  <2>3. pc[w] \notin Carrying /\ UNCHANGED <<adapterVars, history, record>>
    BY <1>6 DEF RecordOutcome, Carrying
  <2> QED
    BY <1>2, <2>1, <2>2, <2>3, Zenon
<1>7. ASSUME NEW o \in {"sent", "failed", "broken"}, Put(w, o) PROVE LInv'
  <2>1. /\ pc' = [pc EXCEPT ![w] = o] /\ pc[w] \notin Carrying /\ job' = job
        /\ UNCHANGED <<adapterVars, abandoned, record>>
    BY <1>7 DEF Put, Goto, Carrying, storeVars
  <2>2. o \notin Carrying /\ o # "remove"
    BY DEF Carrying
  <2> QED
    BY <2>1, <2>2, EmptyHanded, Zenon
<1>8. CASE CleanSuperseded(w) \/ CleanInvalid(w)
  <2>1. /\ pc' = [pc EXCEPT ![w] = "cancelClaim"] /\ "cancelClaim" \in Empty
        /\ pc[w] \notin Carrying /\ UNCHANGED <<adapterVars, history, record>>
    BY <1>8 DEF CleanSuperseded, CleanInvalid, Goto, Carrying, Empty, storeVars
  <2>2. PICK T : job' = [job EXCEPT ![w].todo = T]
    BY <1>8 DEF CleanSuperseded, CleanInvalid
  <2>3. job'[w].hand = job[w].hand /\ \A v \in Worker : v # w => job'[v] = job[v]
    BY <1>0, <2>2 DEF Job
  <2> QED
    BY <1>2, <2>1, <2>3, Zenon
<1>9. ASSUME NEW c \in job[w].todo, CancelClaim(w, c) PROVE LInv'
  <2>1. /\ pc[w] = "cancelClaim" /\ pc[w] \notin Carrying /\ UNCHANGED <<adapterVars, abandoned>>
    BY <1>9, SMTT(20) DEF CancelClaim, Carrying, history
  <2>2. \E n \in {"cancel", "cancelClaim"} : pc' = [pc EXCEPT ![w] = n]
    <3>1. CASE HoldsLease(w) /\ record[c[1]].msg = c[2]
      BY <1>9, <3>1 DEF CancelClaim, Goto
    <3>2. CASE ~(HoldsLease(w) /\ record[c[1]].msg = c[2])
      <4>1. pc' = pc
        BY <1>9, <3>2 DEF CancelClaim
      <4> QED
        BY <1>0, <2>1, <4>1
    <3> QED
      BY <3>1, <3>2
  <2>3. job'[w].hand = job[w].hand /\ \A v \in Worker : v # w => job'[v] = job[v]
    BY <1>0, <1>9 DEF CancelClaim, Job
  <2>4. \A r \in Reservation : record'[r].msg = record[r].msg
    <3>1. record \in [Reservation -> [msg : 0 .. Len(lists), started : BOOLEAN]]
      BY DEF RInv, TypeOK
    <3> QED
      BY <1>9, <3>1, Zenon DEF CancelClaim
  <2>5. "cancel" \notin Carrying /\ "cancelClaim" \notin Carrying
    BY DEF Carrying
  <2> QED
    BY <2>1, <2>2, <2>3, <2>4, <2>5, EmptyHanded, Zenon
<1>10. CASE PassDone(w)
  <2>1. pc[w] = "cancelClaim" /\ job[w].plan \in Plans
    BY <1>0, <1>10 DEF PassDone, JobFits, Cancelling
  <2>2. Head(job[w].plan) \in Empty
    BY <2>1, PlanParts DEF Empty
  <2>3. /\ pc' = [pc EXCEPT ![w] = Head(job[w].plan)] /\ pc[w] \notin Carrying
        /\ UNCHANGED <<adapterVars, history, record>>
    BY <1>10 DEF PassDone, Goto, Carrying, storeVars
  <2>4. job'[w].hand = job[w].hand /\ \A v \in Worker : v # w => job'[v] = job[v]
    BY <1>0, <1>10 DEF PassDone, Job
  <2> QED
    BY <1>2, <2>2, <2>3, <2>4, Zenon
<1> QED
  BY <1>4, <1>5, <1>6, <1>7, <1>8, <1>9, <1>10, SMTT(20)

\* A record goes after the adapter cancelled its reservation.
LEMMA NoLeakOfCancelling ==
  ASSUME RInv, LInv, NEW w \in Worker, Remove(w) \/ \E ok \in BOOLEAN : Cancel(w, ok)
  PROVE  LInv'
<1>0. /\ job \in [Worker -> Job] /\ pc \in [Worker -> Step] /\ job[w] \in Job
      /\ HandFits(w) /\ reserved \subseteq Reservation /\ reserved \cap cancelled = {}
      /\ record \in [Reservation -> [msg : 0 .. Len(lists), started : BOOLEAN]]
  BY DEF RInv, TypeOK, LInv
<1>1. ASSUME NEW ok \in BOOLEAN, Cancel(w, ok) PROVE LInv'
  <2> DEFINE r == job[w].cur[1]
  <2>1. /\ pc[w] = "cancel" /\ pc' = [pc EXCEPT ![w] = IF ok THEN "remove" ELSE "cancelClaim"]
        /\ job' = (IF ok THEN job ELSE [job EXCEPT ![w].cur = <<>>])
        /\ reserved' = (IF ok THEN reserved \ {r} ELSE reserved)
        /\ cancelled' = (IF ok THEN cancelled \cup {r} ELSE cancelled)
        /\ abandoned' = abandoned /\ record' = record
    BY <1>1 DEF Cancel, AdapterCancel, Goto, storeVars
  <2>2. /\ job[w].hand = {} /\ job'[w].hand = {}
        /\ pc'[w] = IF ok THEN "remove" ELSE "cancelClaim"
        /\ ok => job'[w].cur[1] \in cancelled'
        /\ \A v \in Worker : v # w => pc'[v] = pc[v] /\ job'[v] = job[v]
    BY <1>0, <2>1 DEF Job, HandFits, Carrying
  <2> HIDE DEF r
  <2>3. HandFits(w)'
    BY <2>2 DEF HandFits
  <2> QED
    BY <1>0, <2>1, <2>2, <2>3, HandStep
<1>2. CASE Remove(w)
  <2> DEFINE c == job[w].cur
  <2>1. /\ pc[w] = "remove" /\ c[1] \in cancelled /\ job[w].hand = {}
        /\ pc' = [pc EXCEPT ![w] = "cancelClaim"] /\ job' = [job EXCEPT ![w].cur = <<>>]
        /\ reserved' = reserved /\ cancelled' = cancelled /\ abandoned' = abandoned
        /\ record' = IF record[c[1]] = [msg |-> c[2], started |-> TRUE]
                     THEN [record EXCEPT ![c[1]] = NoRecord] ELSE record
    BY <1>0, <1>2 DEF Remove, Goto, adapterVars, history, HandFits, Carrying
  <2> HIDE DEF c
  <2>2. /\ job'[w].hand = {} /\ pc'[w] = "cancelClaim"
        /\ \A v \in Worker : v # w => pc'[v] = pc[v] /\ job'[v] = job[v]
    BY <1>0, <2>1 DEF Job
  <2>3. \A r \in reserved : record'[r] = record[r]
    BY <1>0, <2>1
  <2>4. HandFits(w)'
    BY <2>2 DEF HandFits
  <2> QED
    BY <1>0, <2>1, <2>2, <2>3, <2>4, HandStep
<1> QED
  BY <1>1, <1>2

\* At the start the adapter holds nothing.
LEMMA LeakInit == Init => LInv
<1> SUFFICES ASSUME Init PROVE LInv
  OBVIOUS
<1>1. reserved = {} /\ \A w \in Worker : pc[w] = "idle" /\ job[w].hand = {}
  BY DEF Init, NoJob
<1> QED
  BY <1>1 DEF LInv, HandFits

\* No step leaks a reservation.
LEMMA LeakNext == RInv /\ LInv /\ [Next]_vars => LInv'
<1> SUFFICES ASSUME RInv, LInv, [Next]_vars PROVE LInv'
  OBVIOUS
<1>1. ASSUME UNCHANGED <<record, adapterVars, abandoned, pc, job>> PROVE LInv'
  BY <1>1 DEF LInv, Accounted, HandFits, adapterVars
<1>2. CASE Tick \/ Quiet \/ UNCHANGED vars
  BY <1>1, <1>2 DEF Tick, Quiet, vars, storeVars, history
<1>3. ASSUME NEW w \in Worker, WorkerStep(w) PROVE LInv'
  BY <1>3, NoLeakOfCall, NoLeakOfQueueing, NoLeakOfSending, NoLeakOfCancelling, Zenon
     DEF WorkerStep
<1>4. ASSUME NEW w \in Worker,
             (\E o \in DOMAIN FirstStep, S \in Offered : Begin(w, o, S)) \/ Crash(w)
      PROVE  LInv'
  BY <1>4, NoLeakOfCall, Zenon
<1> QED
  BY <1>2, <1>3, <1>4 DEF Next

(***************************************************************************)
(* What the adapter holds for this counterparty has a record, or a call    *)
(* will queue it or give it back (cancel_reservations_after_queue_error,   *)
(* cancel_reservation_records), unless that call died with it or the       *)
(* adapter refused to cancel; also when calls share reservations.          *)
(***************************************************************************)
THEOREM NoLeakTheorem == Spec => []NoLeak
<1>1. LInv => NoLeak
  BY DEF LInv, Accounted, NoLeak
<1> QED
  BY <1>1, InvInit, InvNext, LeakInit, LeakNext, PTL DEF Spec

----------------------------------------------------------------------------
(* A list that may be sent keeps its reservations.                        *)

Gone(m) == m.status \in {"Invalid", "Superseded"}

\* No two calls carry the same reservation.
HandsApart == \A v, w \in Worker : v # w => job[v].hand \cap job[w].hand = {}

\* What a worker is about to have cancelled: one it carries and that has no record, or
\* one whose record is marked, unless the adapter cancelled it for another worker.
CancelFits(w) ==
  /\ pc[w] = "undoCancel" => job[w].cur[1] \in job[w].hand /\ record[job[w].cur[1]].msg = 0
  /\ pc[w] = "cancel" => job[w].cur[1] \in cancelled \/ record[job[w].cur[1]].started

Live(r) == record[r].msg # 0 /\ ~Gone(lists[record[r].msg])

\* The inductive invariant, on top of RInv and LInv.
BInv ==
  /\ HandsApart
  /\ \A w \in Worker : CancelFits(w) /\ job[w].hand \subseteq reserved \cup crossed
  /\ \A r \in Reservation : Live(r) => r \in reserved \cup crossed

(***************************************************************************)
(* A list that is invalid or superseded is so for good: the lease holder   *)
(* changes a list that waits, or the one it is sending.                    *)
(***************************************************************************)
LEMMA GoneStaysGone ==
  ASSUME RInv, NEW w \in Worker,
         ClaimNext(w) \/ Ready(w) \/ RecordOutcome(w) \/ QueueList(w) \/ lists' = lists
  PROVE  \A i \in DOMAIN lists : Gone(lists[i]) => Gone(lists'[i])
<1>0. lists \in Seq(Message) /\ now \in Nat
  BY DEF RInv, TypeOK, LeaseTypeOK
<1>1. ASSUME pc[w] \in Claimed, NEW t \in Status, HoldsLease(w),
             lists' = [lists EXCEPT ![job[w].msg].status = t]
      PROVE  \A i \in DOMAIN lists : Gone(lists[i]) => Gone(lists'[i])
  <2>1. job[w].msg \in DOMAIN lists /\ lists[job[w].msg].status = "Sending"
    BY <1>1 DEF RInv, JobFits, ClaimIsSending
  <2> QED
    BY <1>0, <1>1, <2>1, StatusChange DEF Gone
<1>2. CASE ClaimNext(w)
  <2> DEFINE q == Supersede(lists, StaleBefore, RetryAfter)
             i == NextMessage(lists, StaleBefore, RetryAfter)
             r == [q EXCEPT ![i].status = "Sending", ![i].attempt = now]
  <2>1. StaleBefore \in Int /\ RetryAfter \in Int
    BY <1>0, ReservationConstants DEF StaleBefore, RetryAfter
  <2>2. /\ q \in Seq(Message) /\ DOMAIN q = DOMAIN lists
        /\ \A j \in DOMAIN lists : Gone(lists[j]) => q[j] = lists[j]
    BY <1>0, <2>1, SupersedeType DEF Gone
  <2>3. ASSUME i # 0 PROVE \A j \in DOMAIN lists : Gone(lists[j]) => r[j] = lists[j]
    <3>1. i \in DOMAIN lists /\ lists[i].status \notin Terminal
      BY <1>0, <2>1, <2>3, NextIsOpen
    <3>2. \A j \in DOMAIN lists : j # i => r[j] = q[j]
      BY <1>0, <2>2, <3>1, ClaimedQueue, Zenon
    <3> HIDE DEF q, i, r
    <3> QED
      BY <2>2, <3>1, <3>2 DEF Gone, Terminal
  <2>4. lists' = lists \/ lists' = q \/ (i # 0 /\ lists' = r)
    BY <1>2 DEF ClaimNext, SaveLists
  <2> HIDE DEF q, i, r
  <2> QED
    BY <2>2, <2>3, <2>4
<1>3. CASE Ready(w)
  BY <1>1, <1>3 DEF Ready, SaveLists, Claimed, Status
<1>4. CASE RecordOutcome(w)
  <2>1. /\ pc[w] \in Claimed
        /\ [sent |-> "Sent", failed |-> "Failed", broken |-> "RecoveryRequired"][pc[w]] \in Status
    BY <1>4 DEF RecordOutcome, Claimed, Status
  <2> QED
    BY <1>1, <1>4, <2>1 DEF RecordOutcome, SaveLists
<1>5. CASE QueueList(w)
  <2>1. lists' = lists \/ lists' = Append(lists, NewMessage("list", Never))
    BY <1>5 DEF QueueList, storeVars
  <2> QED
    BY <1>0, <2>1, AppendedQueue DEF Never
<1> QED
  BY <1>2, <1>3, <1>4, <1>5

(***************************************************************************)
(* A worker's step takes no reservation from a live list when what it now  *)
(* carries the adapter holds and nobody else carries, when what it has     *)
(* cancelled others carry is known as crossed, and when it marks no record *)
(* as usable again.                                                        *)
(***************************************************************************)
LEMMA BackStep ==
  ASSUME BInv, NEW w \in Worker, CancelFits(w)',
         \A v \in Worker : v # w => pc'[v] = pc[v] /\ job'[v] = job[v],
         \A v \in Worker : v # w => job'[w].hand \cap job[v].hand = {},
         job'[w].hand \subseteq reserved' \cup crossed',
         cancelled \subseteq cancelled', crossed \subseteq crossed',
         \A v \in Worker : v # w => \A r \in job[v].hand : r \in reserved => r \in reserved' \cup crossed',
         \A v \in Worker : v # w =>
           \A r \in job[v].hand : record[r].msg = 0 => record'[r].msg = 0,
         \A v \in Worker : (v # w /\ pc[v] = "cancel") =>
           LET r == job[v].cur[1] IN record[r].started => r \in cancelled' \/ record'[r].started,
         \A r \in Reservation : Live(r)' => r \in reserved' \cup crossed'
  PROVE  BInv'
<1>1. HandsApart'
  BY DEF BInv, HandsApart
<1>2. ASSUME NEW v \in Worker, v # w PROVE CancelFits(v)' /\ job'[v].hand \subseteq reserved' \cup crossed'
  <2>1. CancelFits(v) /\ job[v].hand \subseteq reserved \cup crossed
    BY DEF BInv
  <2>2. job'[v].hand \subseteq reserved' \cup crossed'
    BY <1>2, <2>1, SMTT(20)
  <2>3. pc'[v] = pc[v] /\ job'[v] = job[v]
    BY <1>2
  <2>4. pc[v] = "undoCancel" =>
          job[v].cur[1] \in job[v].hand /\ record'[job[v].cur[1]].msg = 0
    BY <1>2, <2>1 DEF CancelFits
  <2>5. pc[v] = "cancel" => job[v].cur[1] \in cancelled' \/ record'[job[v].cur[1]].started
    BY <1>2, <2>1 DEF CancelFits
  <2>6. CancelFits(v)'
    BY <2>3, <2>4, <2>5, Zenon DEF CancelFits
  <2> QED
    BY <2>2, <2>6
<1> QED
  BY <1>1, <1>2 DEF BInv

(***************************************************************************)
(* A step that asks nothing of the adapter and moves no record.            *)
(***************************************************************************)
LEMMA QuietStep ==
  ASSUME RInv, BInv, NEW w \in Worker, CancelFits(w)',
         \A v \in Worker : v # w => pc'[v] = pc[v] /\ job'[v] = job[v],
         job'[w].hand \subseteq job[w].hand,
         reserved' = reserved, cancelled' = cancelled, crossed' = crossed,
         \A r \in Reservation : record'[r].msg = record[r].msg,
         \A r \in Reservation : record[r].started => record'[r].started,
         \A i \in DOMAIN lists : Gone(lists[i]) => Gone(lists'[i])
  PROVE  BInv'
<1>1. \A v \in Worker : v # w => job'[w].hand \cap job[v].hand = {}
  BY ZenonT(30) DEF BInv, HandsApart
<1>2. ASSUME NEW r \in Reservation, Live(r)' PROVE r \in reserved \cup crossed
  <2>1. record[r].msg = record'[r].msg /\ record[r].msg # 0 /\ record[r].msg \in DOMAIN lists
    BY <1>2 DEF Live, RInv, ReservationBackupRestores, validate_payment_endpoint_reservations
  <2>2. Live(r)
    BY <1>2, <2>1 DEF Live
  <2> QED
    BY <2>2 DEF BInv
<1>3. \A v \in Worker : job[v].hand \subseteq Reservation
  BY DEF RInv, Job
<1>4. \A v \in Worker : pc[v] = "cancel" => job[v].cur[1] \in Reservation
  BY DEF RInv, JobFits
<1>5. job'[w].hand \subseteq reserved \cup crossed
  BY DEF BInv
<1> QED
  BY <1>1, <1>2, <1>3, <1>4, <1>5, BackStep, Zenon

\* Calls that begin, take the lease or do not, end, or die.
LEMMA BackedByCall ==
  ASSUME ~Overlap, RInv, LInv, BInv, NEW w \in Worker,
         \/ Claim(w) \/ ClaimRefused(w) \/ Release(w) \/ Crash(w)
         \/ \E o \in DOMAIN FirstStep, S \in Offered : Begin(w, o, S)
  PROVE  BInv'
<1>0. /\ job \in [Worker -> Job] /\ pc \in [Worker -> Step] /\ job[w] \in Job
      /\ \A i \in DOMAIN lists : lists' = lists => (Gone(lists[i]) => Gone(lists'[i]))
  BY SMTT(20) DEF RInv, TypeOK
<1>1. CASE Claim(w) \/ ClaimRefused(w) \/ Release(w) \/ Crash(w)
  <2>1. /\ pc' = [pc EXCEPT ![w] = pc'[w]] /\ pc'[w] \notin {"cancel", "undoCancel"}
        /\ lists' = lists /\ record' = record
        /\ reserved' = reserved /\ cancelled' = cancelled /\ crossed' = crossed
    <3>1. CASE Claim(w)
      <4>1. pc' = [pc EXCEPT ![w] = FirstStep[pc[w]]] /\ pc[w] \in {"queue", "reserve", "send", "cleanup"}
        BY <3>1 DEF Claim, Goto, FirstStep
      <4>2. FirstStep[pc[w]] \in {"allowed", "ask", "next", "superseded"}
        BY <4>1 DEF FirstStep
      <4> QED
        BY <1>0, <3>1, <4>1, <4>2, SMTT(20) DEF Claim, storeVars, adapterVars, history
    <3>2. CASE ClaimRefused(w)
      <4>1. \E n \in {"undo", "idle"} : pc' = [pc EXCEPT ![w] = n]
        BY <3>2, Zenon DEF ClaimRefused, Goto
      <4> QED
        BY <1>0, <3>2, <4>1 DEF ClaimRefused, storeVars, adapterVars, history
    <3>3. CASE Release(w) \/ Crash(w)
      BY <1>0, <3>3, Zenon DEF Release, Crash, Goto, storeVars, adapterVars, history
    <3> QED
      BY <1>1, <3>1, <3>2, <3>3
  <2>2. \A v \in Worker : v # w => pc'[v] = pc[v] /\ job'[v] = job[v]
    BY <1>0, <1>1, <2>1, Zenon DEF Claim, ClaimRefused, Release, Crash
  <2>3. job'[w].hand \subseteq job[w].hand
    BY <1>0, <1>1 DEF Claim, ClaimRefused, Release, Crash, NoJob, Cleaning
  <2>4. CancelFits(w)'
    BY <2>1, Zenon DEF CancelFits
  <2> QED
    BY <1>0, <2>1, <2>2, <2>3, <2>4, QuietStep
<1>2. ASSUME NEW o \in DOMAIN FirstStep, NEW S \in Offered, Begin(w, o, S) PROVE BInv'
  <2>1. /\ o \in {"queue", "reserve", "send", "cleanup"} /\ pc' = [pc EXCEPT ![w] = o]
        /\ job' = [job EXCEPT ![w].hand = S] /\ lists' = lists /\ record' = record
        /\ reserved' = reserved \cup S /\ cancelled' = cancelled /\ crossed' = crossed
    BY <1>2, SMTT(20) DEF Begin, Goto, FirstStep, storeVars, history
  <2>2. \A v \in Worker : S \cap job[v].hand = {}
    BY DEF Offered
  <2>3. /\ pc'[w] = o /\ job'[w].hand = S
        /\ \A v \in Worker : v # w => pc'[v] = pc[v] /\ job'[v] = job[v]
    BY <1>0, <2>1 DEF Job
  <2>4. CancelFits(w)'
    BY <2>1, <2>3 DEF CancelFits
  <2>5. \A r \in Reservation : Live(r)' => r \in reserved' \cup crossed'
    BY <2>1 DEF BInv, Live
  <2> QED
    BY <2>1, <2>2, <2>3, <2>4, <2>5, BackStep
<1> QED
  BY <1>1, <1>2

\* Reservations get a record, or are given back to the adapter.
LEMMA BackedByQueueing ==
  ASSUME ~Overlap, RInv, LInv, BInv, NEW w \in Worker,
         \/ QueueAllowed(w) \/ QueueNotAllowed(w) \/ UndoDone(w) \/ QueueList(w)
         \/ \E S \in Offered : Reserve(w, S)
         \/ \E r \in Reservation : Undo(w, r)
         \/ \E ok \in BOOLEAN : UndoCancel(w, ok)
  PROVE  BInv'
<1>0. /\ job \in [Worker -> Job] /\ pc \in [Worker -> Step] /\ job[w] \in Job
      /\ lists \in Seq(Message) /\ CancelFits(w) /\ job[w].hand \subseteq reserved \cup crossed
      /\ \A v \in Worker : v # w => job[w].hand \cap job[v].hand = {}
  BY Zenon DEF RInv, TypeOK, BInv, HandsApart
<1>1. ASSUME pc' = [pc EXCEPT ![w] = pc'[w]], pc'[w] \notin {"cancel", "undoCancel"},
             UNCHANGED <<storeVars, adapterVars, history, job>>
      PROVE  BInv'
  <2>1. CancelFits(w)'
    BY <1>1, SMTT(20) DEF CancelFits
  <2>2. \A v \in Worker : v # w => pc'[v] = pc[v] /\ job'[v] = job[v]
    BY <1>0, <1>1
  <2> QED
    BY <1>1, <2>1, <2>2, QuietStep, ZenonT(30) DEF storeVars, adapterVars, history
<1>2. CASE QueueAllowed(w) \/ QueueNotAllowed(w) \/ UndoDone(w)
  <2>1. \E n \in {"insert", "undo", "release"} : pc' = [pc EXCEPT ![w] = n]
    BY <1>2, Zenon DEF QueueAllowed, QueueNotAllowed, UndoDone, Goto
  <2> QED
    BY <1>0, <1>1, <1>2, <2>1, Zenon DEF QueueAllowed, QueueNotAllowed, UndoDone
<1>3. CASE QueueList(w)
  <2> DEFINE S == job[w].hand
  <2>1. CASE HoldsLease(w) /\ \A r \in S : ~record[r].started
    <3>1. /\ record' = build_reservation_records(S, Len(lists'))
          /\ job' = [job EXCEPT ![w].hand = {}] /\ pc' = [pc EXCEPT ![w] = "release"]
          /\ reserved' = reserved /\ cancelled' = cancelled /\ crossed' = crossed
      BY <1>3, <2>1 DEF QueueList, Goto, adapterVars, history
    <3>2. /\ pc'[w] = "release" /\ job'[w].hand = {}
          /\ \A v \in Worker : v # w => pc'[v] = pc[v] /\ job'[v] = job[v]
      BY <1>0, <3>1 DEF Job
    <3>3. /\ \A r \in Reservation : r \notin S => record'[r] = record[r]
          /\ \A r \in Reservation : record[r].started => record'[r] = record[r]
      BY <2>1, <3>1 DEF build_reservation_records
    <3>4. \A r \in Reservation : Live(r)' => r \in reserved \cup crossed
      <4>1. ASSUME NEW r \in Reservation, Live(r)', r \notin S PROVE r \in reserved \cup crossed
        <5>1. record'[r] = record[r] /\ record[r].msg # 0 /\ record[r].msg \in DOMAIN lists
          BY <3>3, <4>1, Zenon DEF Live, RInv, ReservationBackupRestores, validate_payment_endpoint_reservations
        <5>2. Live(r)
          BY <1>3, <4>1, <5>1, GoneStaysGone, Zenon DEF Live
        <5> QED
          BY <5>2, ZenonT(30) DEF BInv
      <4> QED
        BY <1>0, <4>1, Zenon
    <3>5. \A v \in Worker : (v # w /\ pc[v] = "cancel") => job[v].cur[1] \in Reservation
      BY SMTT(20) DEF RInv, JobFits
    <3>6. CancelFits(w)'
      BY <3>2 DEF CancelFits
    <3>7. \A v \in Worker : v # w => \A r \in job[v].hand : record'[r] = record[r]
      <4>1. \A v \in Worker : job[v].hand \subseteq Reservation
        BY DEF RInv, Job
      <4> QED
        BY <1>0, <3>3, <4>1, Zenon
    <3> QED
      BY <3>1, <3>2, <3>3, <3>4, <3>5, <3>6, <3>7, BackStep
  <2>2. CASE ~(HoldsLease(w) /\ \A r \in S : ~record[r].started)
    <3>1. pc' = [pc EXCEPT ![w] = "undo"] /\ UNCHANGED <<storeVars, adapterVars, history, job>>
      BY <1>3, <2>2 DEF QueueList, Goto
    <3> QED
      BY <1>0, <1>1, <3>1
  <2> QED
    BY <2>1, <2>2, Zenon
<1>4. ASSUME NEW S \in Offered, Reserve(w, S) PROVE BInv'
  <2>1. /\ pc' = [pc EXCEPT ![w] = "insert"]
        /\ job' = [job EXCEPT ![w].hand = S] /\ lists' = lists /\ record' = record
        /\ reserved' = reserved \cup S /\ cancelled' = cancelled /\ crossed' = crossed
    BY <1>4 DEF Reserve, Goto, storeVars, history
  <2>2. \A v \in Worker : S \cap job[v].hand = {}
    BY DEF Offered
  <2>3. /\ pc'[w] = "insert" /\ job'[w].hand = S
        /\ \A v \in Worker : v # w => pc'[v] = pc[v] /\ job'[v] = job[v]
    BY <1>0, <2>1, SMTT(20) DEF Job
  <2>4. CancelFits(w)'
    BY <2>3 DEF CancelFits
  <2>5. \A r \in Reservation : Live(r)' => r \in reserved' \cup crossed'
    BY <2>1 DEF BInv, Live
  <2> QED
    BY <2>1, <2>2, <2>3, <2>4, <2>5, BackStep
<1>5. ASSUME NEW r \in Reservation, Undo(w, r) PROVE BInv'
  <2>1. /\ pc[w] = "undo" /\ r \in job[w].hand /\ lists' = lists /\ record' = record
        /\ reserved' = reserved /\ cancelled' = cancelled /\ crossed' = crossed
    BY <1>5 DEF Undo, storeVars, adapterVars, history
  <2>2. CASE record[r].msg # 0
    <3>1. job' = [job EXCEPT ![w].hand = @ \ {r}] /\ pc' = pc
      BY <1>5, <2>2 DEF Undo
    <3>2. /\ job'[w].hand \subseteq job[w].hand
          /\ \A v \in Worker : v # w => pc'[v] = pc[v] /\ job'[v] = job[v]
      BY <1>0, <3>1 DEF Job
    <3>3. CancelFits(w)'
      BY <2>1, <3>1 DEF CancelFits
    <3> QED
      BY <2>1, <3>2, <3>3, QuietStep
  <2>3. CASE record[r].msg = 0
    <3>1. job' = [job EXCEPT ![w].cur = <<r, 0>>] /\ pc' = [pc EXCEPT ![w] = "undoCancel"]
      BY <1>5, <2>3 DEF Undo, Goto
    <3>2. /\ job'[w].hand = job[w].hand /\ job'[w].cur[1] = r /\ pc'[w] = "undoCancel"
          /\ \A v \in Worker : v # w => pc'[v] = pc[v] /\ job'[v] = job[v]
      BY <1>0, <3>1 DEF Job
    <3>3. CancelFits(w)'
      BY <2>1, <2>3, <3>2, Zenon DEF CancelFits
    <3> QED
      BY <2>1, <3>2, <3>3, QuietStep
  <2> QED
    BY <2>2, <2>3
<1>6. ASSUME NEW ok \in BOOLEAN, UndoCancel(w, ok) PROVE BInv'
  <2> DEFINE r == job[w].cur[1]
  <2>1. /\ pc[w] = "undoCancel" /\ pc' = [pc EXCEPT ![w] = "undo"] /\ lists' = lists /\ record' = record
        /\ job' = [job EXCEPT ![w].cur = <<>>, ![w].hand = @ \ {r}]
        /\ reserved' = (IF ok THEN reserved \ {r} ELSE reserved)
        /\ cancelled' = (IF ok THEN cancelled \cup {r} ELSE cancelled)
        /\ crossed' = (IF \E v \in Worker \ {w} : r \in job[v].hand THEN crossed \cup {r} ELSE crossed)
    BY <1>6 DEF UndoCancel, AdapterCancel, Goto, storeVars
  <2>2. record[r].msg = 0
    BY <1>0, <2>1 DEF CancelFits
  <2> HIDE DEF r
  <2>3. /\ job'[w].hand = job[w].hand \ {r} /\ pc'[w] = "undo"
        /\ \A v \in Worker : v # w => pc'[v] = pc[v] /\ job'[v] = job[v]
    BY <1>0, <2>1 DEF Job
  <2>4. CancelFits(w)'
    BY <2>3 DEF CancelFits
  <2>5. \A x \in Reservation : Live(x)' => x \in reserved' \cup crossed'
    BY <2>1, <2>2 DEF BInv, Live
  <2>6. /\ cancelled \subseteq cancelled' /\ crossed \subseteq crossed'
        /\ reserved \ {r} \subseteq reserved'
        /\ \A v \in Worker : v # w => (r \in job[v].hand => r \in crossed')
    BY <2>1, SMTT(20)
  <2>7. /\ job'[w].hand \subseteq reserved' \cup crossed'
        /\ \A v \in Worker : v # w =>
             \A x \in job[v].hand : x \in reserved => x \in reserved' \cup crossed'
    BY <1>0, <2>3, <2>6, SMTT(20)
  <2> QED
    BY <1>0, <2>1, <2>3, <2>4, <2>5, <2>6, <2>7, BackStep
<1> QED
  BY <1>2, <1>3, <1>4, <1>5, <1>6

\* Sending and the choice of what to cancel ask nothing of the adapter.
LEMMA BackedBySending ==
  ASSUME RInv, LInv, BInv, NEW w \in Worker,
         \/ ClaimNext(w) \/ Ready(w) \/ RecordOutcome(w)
         \/ \E o \in {"sent", "failed", "broken"} : Put(w, o)
         \/ CleanSuperseded(w) \/ CleanInvalid(w)
         \/ \E c \in job[w].todo : CancelClaim(w, c)
         \/ PassDone(w)
  PROVE  BInv'
<1>0. job \in [Worker -> Job] /\ pc \in [Worker -> Step] /\ job[w] \in Job /\ JobFits(w)
  BY SMTT(20) DEF RInv, TypeOK
<1> DEFINE Plain == Step \ {"cancel", "undoCancel"}
<1>1. ASSUME NEW n \in Plain, pc' = [pc EXCEPT ![w] = n], job'[w].hand \subseteq job[w].hand,
             \A v \in Worker : v # w => job'[v] = job[v],
             reserved' = reserved, cancelled' = cancelled, crossed' = crossed, record' = record,
             ClaimNext(w) \/ Ready(w) \/ RecordOutcome(w) \/ QueueList(w) \/ lists' = lists
      PROVE  BInv'
  <2>1. pc'[w] = n /\ \A v \in Worker : v # w => pc'[v] = pc[v]
    BY <1>0, <1>1, Zenon
  <2>2. CancelFits(w)'
    BY <2>1, Zenon DEF CancelFits
  <2>3. \A i \in DOMAIN lists : Gone(lists[i]) => Gone(lists'[i])
    BY <1>1, GoneStaysGone, Zenon
  <2> QED
    BY <1>1, <2>1, <2>2, <2>3, QuietStep, SMTT(20)
<1>2. {"release", "ready", "superseded", "cancelClaim", "put", "sent", "failed", "broken", "invalid",
       "next"} \subseteq Plain
  BY SMTT(20) DEF Step
<1> HIDE DEF Plain
<1>3. ASSUME NEW q, NEW n \in Plain, SaveLists(w, q, n)
      PROVE  \E m \in Plain : pc' = [pc EXCEPT ![w] = m]
  BY <1>2, <1>3, Zenon DEF SaveLists, Goto
<1>4. CASE ClaimNext(w)
  <2>1. \E m \in Plain : pc' = [pc EXCEPT ![w] = m]
    <3>1. "ready" \in Plain /\ "superseded" \in Plain
      BY <1>2
    <3> QED
      BY <1>3, <1>4, <3>1 DEF ClaimNext
  <2>2. /\ job'[w].hand = {} \/ job'[w].hand = job[w].hand
        /\ \A v \in Worker : v # w => job'[v] = job[v]
    BY <1>0, <1>4, ZenonT(30) DEF ClaimNext, Cleaning, NoJob, Job
  <2>3. reserved' = reserved /\ cancelled' = cancelled /\ crossed' = crossed /\ record' = record
    BY <1>4 DEF ClaimNext, adapterVars, history
  <2> QED
    BY <1>1, <1>4, <2>1, <2>2, <2>3, Zenon
<1>5. CASE Ready(w)
  <2>1. \E m \in Plain : pc' = [pc EXCEPT ![w] = m]
    <3>1. "put" \in Plain /\ "cancelClaim" \in Plain
      BY <1>2
    <3> QED
      BY <1>3, <1>5, <3>1 DEF Ready, Goto
  <2>2. /\ job'[w].hand \subseteq job[w].hand
        /\ \A v \in Worker : v # w => job'[v] = job[v]
    BY <1>0, <1>5, Zenon DEF Ready, NoJob
  <2>3. reserved' = reserved /\ cancelled' = cancelled /\ crossed' = crossed /\ record' = record
    BY <1>5 DEF Ready, adapterVars, history
  <2> QED
    BY <1>1, <1>5, <2>1, <2>2, <2>3, Zenon
<1>6. CASE RecordOutcome(w)
  <2>1. \E m \in Plain : pc' = [pc EXCEPT ![w] = m]
    <3>1. (IF pc[w] = "broken" THEN "release" ELSE "superseded") \in Plain
      BY <1>2
    <3> QED
      BY <1>3, <1>6, <3>1 DEF RecordOutcome
  <2>2. /\ job'[w].hand \subseteq job[w].hand
        /\ \A v \in Worker : v # w => job'[v] = job[v]
    BY <1>0, <1>6 DEF RecordOutcome, Cleaning, NoJob
  <2>3. reserved' = reserved /\ cancelled' = cancelled /\ crossed' = crossed /\ record' = record
    BY <1>6 DEF RecordOutcome, adapterVars, history
  <2> QED
    BY <1>1, <1>6, <2>1, <2>2, <2>3, Zenon
<1>7. ASSUME NEW o \in {"sent", "failed", "broken"}, Put(w, o) PROVE BInv'
  BY <1>1, <1>2, <1>7, Zenon DEF Put, Goto, storeVars, adapterVars
<1>8. CASE CleanSuperseded(w) \/ CleanInvalid(w)
  <2>1. /\ pc' = [pc EXCEPT ![w] = "cancelClaim"] /\ lists' = lists /\ record' = record
        /\ reserved' = reserved /\ cancelled' = cancelled /\ crossed' = crossed
    BY <1>8 DEF CleanSuperseded, CleanInvalid, Goto, storeVars, adapterVars, history
  <2>2. PICK T : job' = [job EXCEPT ![w].todo = T]
    BY <1>8 DEF CleanSuperseded, CleanInvalid
  <2>3. job'[w].hand \subseteq job[w].hand /\ \A v \in Worker : v # w => job'[v] = job[v]
    BY <1>0, <2>2 DEF Job
  <2> QED
    BY <1>1, <1>2, <2>1, <2>3, Zenon
<1>9. ASSUME NEW c \in job[w].todo, CancelClaim(w, c) PROVE BInv'
  <2>1. /\ pc[w] = "cancelClaim" /\ c[1] \in Reservation /\ lists' = lists
        /\ reserved' = reserved /\ cancelled' = cancelled /\ crossed' = crossed
        /\ record \in [Reservation -> [msg : 0 .. Len(lists), started : BOOLEAN]]
    BY <1>0, <1>9, SMTT(20) DEF CancelClaim, adapterVars, history, Job, RInv, TypeOK
  <2>2. CASE HoldsLease(w) /\ record[c[1]].msg = c[2]
    <3>1. /\ record' = [record EXCEPT ![c[1]].started = TRUE]
          /\ job' = [job EXCEPT ![w].todo = @ \ {c}, ![w].cur = c] /\ pc' = [pc EXCEPT ![w] = "cancel"]
      BY <1>9, <2>2, SMTT(20) DEF CancelClaim, Goto
    <3>2. /\ pc'[w] = "cancel" /\ job'[w].hand = job[w].hand /\ job'[w].cur = c
          /\ \A v \in Worker : v # w => pc'[v] = pc[v] /\ job'[v] = job[v]
      BY <1>0, <3>1 DEF Job
    <3>3. /\ record'[c[1]].started
          /\ \A r \in Reservation : record'[r].msg = record[r].msg
          /\ \A r \in Reservation : record[r].started => record'[r].started
      BY <2>1, <3>1
    <3>4. CancelFits(w)'
      BY <3>2, <3>3 DEF CancelFits
    <3> QED
      BY <2>1, <3>2, <3>3, <3>4, QuietStep
  <2>3. CASE ~(HoldsLease(w) /\ record[c[1]].msg = c[2])
    <3>1. job' = [job EXCEPT ![w].todo = @ \ {c}] /\ record' = record /\ pc' = pc
      BY <1>9, <2>3 DEF CancelClaim
    <3>2. /\ pc' = [pc EXCEPT ![w] = "cancelClaim"] /\ job'[w].hand = job[w].hand
          /\ \A v \in Worker : v # w => job'[v] = job[v]
      BY <1>0, <2>1, <3>1 DEF Job
    <3> QED
      BY <1>1, <1>2, <2>1, <3>1, <3>2, Zenon
  <2> QED
    BY <2>2, <2>3
<1>10. CASE PassDone(w)
  <2>1. pc[w] = "cancelClaim" /\ job[w].plan \in Plans
    BY <1>0, <1>10 DEF PassDone, JobFits, Cancelling
  <2>2. Head(job[w].plan) \in Plain
    BY <1>2, <2>1, PlanParts
  <2>3. /\ pc' = [pc EXCEPT ![w] = Head(job[w].plan)] /\ lists' = lists /\ record' = record
        /\ reserved' = reserved /\ cancelled' = cancelled /\ crossed' = crossed
    BY <1>10 DEF PassDone, Goto, storeVars, adapterVars, history
  <2>4. job'[w].hand = job[w].hand /\ \A v \in Worker : v # w => job'[v] = job[v]
    BY <1>0, <1>10 DEF PassDone, Job
  <2> QED
    BY <1>1, <2>2, <2>3, <2>4, Zenon
<1> QED
  BY <1>4, <1>5, <1>6, <1>7, <1>8, <1>9, <1>10, SMTT(20)

\* The adapter cancels what is marked, or what it cancelled before; then the record goes.
LEMMA BackedByCancelling ==
  ASSUME RInv, LInv, BInv, NEW w \in Worker, Remove(w) \/ \E ok \in BOOLEAN : Cancel(w, ok)
  PROVE  BInv'
<1>0. /\ job \in [Worker -> Job] /\ pc \in [Worker -> Step] /\ job[w] \in Job
      /\ HandFits(w) /\ CancelFits(w) /\ reserved \cap cancelled = {}
      /\ record \in [Reservation -> [msg : 0 .. Len(lists), started : BOOLEAN]]
  BY DEF RInv, TypeOK, LInv, BInv
<1>1. ASSUME NEW ok \in BOOLEAN, Cancel(w, ok) PROVE BInv'
  <2> DEFINE r == job[w].cur[1]
  <2>1. /\ pc[w] = "cancel" /\ pc' = [pc EXCEPT ![w] = IF ok THEN "remove" ELSE "cancelClaim"]
        /\ job' = (IF ok THEN job ELSE [job EXCEPT ![w].cur = <<>>])
        /\ reserved' = (IF ok THEN reserved \ {r} ELSE reserved)
        /\ cancelled' = (IF ok THEN cancelled \cup {r} ELSE cancelled)
        /\ crossed' = (IF \E v \in Worker \ {w} : r \in job[v].hand THEN crossed \cup {r} ELSE crossed)
        /\ lists' = lists /\ record' = record
    BY <1>1 DEF Cancel, AdapterCancel, Goto, storeVars
  <2>2. /\ job'[w].hand = {} /\ pc'[w] \in {"remove", "cancelClaim"}
        /\ \A v \in Worker : v # w => pc'[v] = pc[v] /\ job'[v] = job[v]
    BY <1>0, <2>1 DEF Job, HandFits, Carrying
  <2>3. r \in cancelled \/ record[r].started
    BY <1>0, <2>1 DEF CancelFits
  <2>4. r \in Reservation
    BY <2>1, SMTT(20) DEF RInv, JobFits
  <2>5. record[r].started => ~Live(r)
    BY <2>4 DEF Live, Gone, RInv, StartedIsHopeless, GivenUp, Hopeless
  <2> HIDE DEF r
  <2>6. ASSUME NEW x \in Reservation, Live(x)' PROVE x \in reserved' \cup crossed'
    <3>1. Live(x)
      BY <2>1, <2>6 DEF Live
    <3>2. x \in reserved \cup crossed
      BY <3>1 DEF BInv
    <3>3. x = r => x \notin reserved
      BY <1>0, <2>3, <2>5, <3>1
    <3> QED
      BY <2>1, <3>2, <3>3
  <2>7. /\ cancelled \subseteq cancelled' /\ crossed \subseteq crossed'
        /\ reserved \ {r} \subseteq reserved'
        /\ \A v \in Worker : v # w => (r \in job[v].hand => r \in crossed')
    BY <2>1
  <2>8. CancelFits(w)'
    BY <2>2 DEF CancelFits
  <2> QED
    BY <2>1, <2>2, <2>6, <2>7, <2>8, BackStep
<1>2. CASE Remove(w)
  <2> DEFINE c == job[w].cur
  <2>1. /\ pc[w] = "remove" /\ c[1] \in cancelled /\ job[w].hand = {} /\ c[1] \in Reservation
        /\ pc' = [pc EXCEPT ![w] = "cancelClaim"] /\ job' = [job EXCEPT ![w].cur = <<>>]
        /\ reserved' = reserved /\ cancelled' = cancelled /\ crossed' = crossed /\ lists' = lists
        /\ record' = IF record[c[1]] = [msg |-> c[2], started |-> TRUE]
                     THEN [record EXCEPT ![c[1]] = NoRecord] ELSE record
    BY <1>0, <1>2 DEF Remove, Goto, adapterVars, history, HandFits, Carrying, RInv, JobFits
  <2> HIDE DEF c
  <2>2. /\ job'[w].hand = {} /\ pc'[w] = "cancelClaim"
        /\ \A v \in Worker : v # w => pc'[v] = pc[v] /\ job'[v] = job[v]
    BY <1>0, <2>1 DEF Job
  <2>3. \A r \in Reservation : record'[r] = record[r] \/ (r \in cancelled /\ record'[r].msg = 0)
    BY <1>0, <2>1 DEF NoRecord
  <2>4. \A r \in Reservation : Live(r)' => r \in reserved' \cup crossed'
    BY <2>1, <2>3, Zenon DEF Live, BInv
  <2>5. /\ \A v \in Worker : job[v].hand \subseteq Reservation
        /\ \A v \in Worker : pc[v] = "cancel" => job[v].cur[1] \in Reservation
    BY DEF RInv, Job, JobFits
  <2>6. CancelFits(w)'
    BY <2>2 DEF CancelFits
  <2>7. \A v \in Worker : v # w => \A r \in job[v].hand : record[r].msg = 0 => record'[r].msg = 0
    BY <2>3, <2>5
  <2>8. \A v \in Worker : (v # w /\ pc[v] = "cancel") =>
          (record[job[v].cur[1]].started => job[v].cur[1] \in cancelled \/ record'[job[v].cur[1]].started)
    BY <2>3, <2>5
  <2> QED
    BY <2>1, <2>2, <2>4, <2>6, <2>7, <2>8, BackStep, Zenon
<1> QED
  BY <1>1, <1>2

\* At the start nobody carries anything and nothing is recorded.
LEMMA BackInit == Init => BInv
<1> SUFFICES ASSUME Init PROVE BInv
  OBVIOUS
<1>1. /\ \A w \in Worker : pc[w] = "idle" /\ job[w].hand = {}
      /\ \A r \in Reservation : record[r].msg = 0
  BY DEF Init, NoJob, NoRecord
<1> QED
  BY <1>1 DEF BInv, HandsApart, CancelFits, Live

\* When calls do not share reservations, no step takes one from a live list.
LEMMA BackNext ==
  ASSUME ~Overlap
  PROVE  RInv /\ LInv /\ BInv /\ [Next]_vars => BInv'
<1> SUFFICES ASSUME RInv, LInv, BInv, [Next]_vars PROVE BInv'
  BY SMTT(20)
<1>1. ASSUME UNCHANGED <<storeVars, adapterVars, history, pc, job>> PROVE BInv'
  BY <1>1 DEF BInv, HandsApart, CancelFits, Live, storeVars, adapterVars, history
<1>2. CASE Tick \/ Quiet \/ UNCHANGED vars
  BY <1>1, <1>2 DEF Tick, Quiet, vars
<1>3. ASSUME NEW w \in Worker, WorkerStep(w) PROVE BInv'
  BY <1>3, BackedByCall, BackedByQueueing, BackedBySending, BackedByCancelling, Zenon
     DEF WorkerStep
<1>4. ASSUME NEW w \in Worker,
             (\E o \in DOMAIN FirstStep, S \in Offered : Begin(w, o, S)) \/ Crash(w)
      PROVE  BInv'
  BY <1>4, BackedByCall, Zenon
<1> QED
  BY <1>2, <1>3, <1>4 DEF Next

(***************************************************************************)
(* As long as no two calls carry the same reservation at the same time, a  *)
(* list that may be sent or was sent keeps its details: the adapter holds  *)
(* every recorded reservation of it, unless the cancellation crossed a     *)
(* call that had obtained the reservation before                           *)
(* (claim_reservation_cancellation, cancel_reservation_records,            *)
(* cancel_reservations_after_queue_error).                                 *)
(***************************************************************************)
THEOREM LiveListTheorem ==
  ASSUME ~Overlap
  PROVE  Spec => []LiveListIsBacked
<1>1. BInv => LiveListIsBacked
  BY DEF BInv, Live, Gone, LiveListIsBacked
<1> QED
  BY <1>1, InvInit, InvNext, LeakInit, LeakNext, BackInit, BackNext, PTL DEF Spec

(***************************************************************************)
(* Under the same hypothesis, a call that could not queue its list cancels *)
(* unpersisted reservations only, although                                 *)
(* cancel_reservations_after_queue_error looks them up without a lease;    *)
(* every other cancellation is one that cleanup marked and then removes.   *)
(***************************************************************************)
THEOREM UndoTheorem ==
  ASSUME ~Overlap
  PROVE  Spec => UndoesUnpersisted
<1> DEFINE Fair(r) == r \in cancelled' \ cancelled =>
             \/ record[r].msg = 0
             \/ \E w \in Worker : pc[w] = "cancel" /\ job[w].cur[1] = r /\ pc'[w] = "remove"
<1>1. ASSUME RInv, BInv, [Next]_vars, NEW r \in Reservation, r \in cancelled' \ cancelled
      PROVE  \/ record[r].msg = 0
             \/ \E w \in Worker : pc[w] = "cancel" /\ job[w].cur[1] = r /\ pc'[w] = "remove"
  <2>1. PICK w \in Worker, ok \in BOOLEAN : UndoCancel(w, ok) \/ Cancel(w, ok)
    <3>1. cancelled' # cancelled
      BY <1>1
    <3>2. ~(Tick \/ Quiet \/ UNCHANGED vars)
      BY <3>1 DEF Tick, Quiet, vars, adapterVars
    <3>3. PICK w \in Worker : \/ \E o \in DOMAIN FirstStep, S \in Offered : Begin(w, o, S)
                              \/ WorkerStep(w) \/ Crash(w)
      BY <1>1, <3>2 DEF Next
    <3> QED
      BY <3>1, <3>3, Zenon DEF WorkerStep, Begin, Crash, Claim, ClaimRefused, Release, QueueAllowed, Reserve,
         QueueNotAllowed, QueueList, Undo, UndoDone, ClaimNext, Ready, RecordOutcome, Put,
         CleanSuperseded, CleanInvalid, CancelClaim, Remove, PassDone, adapterVars
  <2>2. CASE UndoCancel(w, ok)
    <3>1. pc[w] = "undoCancel" /\ r = job[w].cur[1]
      BY <1>1, <2>2 DEF UndoCancel, AdapterCancel
    <3> QED
      BY <1>1, <3>1 DEF BInv, CancelFits
  <2>3. CASE Cancel(w, ok)
    <3>1. pc[w] = "cancel" /\ r = job[w].cur[1] /\ ok
      BY <1>1, <2>3 DEF Cancel, AdapterCancel
    <3>2. pc'[w] = "remove"
      BY <1>1, <2>3, <3>1 DEF Cancel, Goto, RInv, TypeOK
    <3> QED
      BY <3>1, <3>2
  <2> QED
    BY <2>1, <2>2, <2>3
<1>2. RInv /\ BInv /\ [Next]_vars => [\A r \in Reservation : Fair(r)]_vars
  BY <1>1
<1>3. Spec => [][\A r \in Reservation : Fair(r)]_vars
  BY <1>2, InvInit, InvNext, LeakInit, LeakNext, BackInit, BackNext, PTL DEF Spec
<1> QED
  BY <1>3 DEF UndoesUnpersisted

=============================================================================
