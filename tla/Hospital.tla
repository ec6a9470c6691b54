------------------------------ MODULE Hospital ------------------------------
(***************************************************************************)
(* The hospital of cw10/assignment/main.c: one doctor thread, a thread per *)
(* patient and per pharmacist, one mutex and five condition variables.     *)
(*                                                                         *)
(* An action is one stretch of code run with the mutex held: from taking   *)
(* it (pthread_mutex_lock, or the return of pthread_cond_wait) to giving   *)
(* it up (pthread_mutex_unlock, or the next pthread_cond_wait).  No shared *)
(* variable is touched outside such a stretch.  The sleeps between them    *)
(* are the places where the other threads get in.                          *)
(***************************************************************************)
EXTENDS Naturals, FiniteSets, Sequences

CONSTANTS
    Crowds,             \* the sets of patients main may be asked to create
    Pharmacists,        \* total_pharmacists of them
    Doctor,
    GroupSize,          \* the literal 3: seats, patients and doses of a consultation
    APTEKA_CAPACITY     \* doses a full first-aid kit holds

ASSUME HospitalAssumption ==
    /\ GroupSize \in Nat \ {0}
    /\ APTEKA_CAPACITY \in Nat /\ APTEKA_CAPACITY >= GroupSize
    /\ IsFiniteSet(UNION Crowds) /\ IsFiniteSet(Pharmacists)
    /\ (UNION Crowds) \cap Pharmacists = {}
    /\ Doctor \notin (UNION Crowds) \cup Pharmacists

VARIABLES
    waiting_patient_ids,    \* the first waiting_patients entries of the array
    meds, waiting_pharmacists, patients_treated,
    done_flag, pharmacist_served, pharmacist_done,
    pc,                     \* where each thread is: a condition variable or a place outside
    woken,                  \* threads taken off their condition variable, not yet running
    consulted               \* how often the doctor announced consulting each patient

counters == <<meds, waiting_pharmacists, patients_treated>>
flags == <<done_flag, pharmacist_served, pharmacist_done>>
vars == <<waiting_patient_ids, counters, flags, pc, woken, consulted>>

Patients == DOMAIN consulted    \* those that were created
Threads == Patients \cup Pharmacists \cup {Doctor}
total_patients == Cardinality(Patients)
waiting_patients == Len(waiting_patient_ids)

DoctorPC == {"loop", "cond_doctor", "consulting", "receiving", "ended"}
PatientPC == {"travel", "cond_patient", "ended"}
PharmacistPC == {"travel", "cond_not_full", "cond_pharmacist_queue",
                 "cond_pharmacist_done", "ended"}
Conditions == {"cond_doctor", "cond_patient", "cond_not_full",
               "cond_pharmacist_queue", "cond_pharmacist_done"}

(***************************************************************************)
(* Condition variables.  Wakes(c) holds the possible effects of one        *)
(* pthread_cond_signal: it takes one waiter off, or none if there is none. *)
(***************************************************************************)
Waiters(c) == {t \in Threads : pc[t] = c /\ t \notin woken}
Wakes(c) == IF Waiters(c) = {} THEN {{}} ELSE {{t} : t \in Waiters(c)}

\* Thread t gets the mutex, coming from a place outside or back from c.
GetsMutex(t, outside, c) ==
    \/ pc[t] = outside
    \/ pc[t] = c /\ t \in woken

\* Thread t gives the mutex up and is then at `to`; it has woken the threads in W.
GivesMutex(t, to, W) ==
    /\ pc' = [pc EXCEPT ![t] = to]
    /\ woken' = (woken \ {t}) \cup W

-----------------------------------------------------------------------------
Init ==
    /\ waiting_patient_ids = <<>>
    /\ meds = APTEKA_CAPACITY
    /\ waiting_pharmacists = 0 /\ patients_treated = 0
    /\ done_flag = FALSE /\ pharmacist_served = FALSE /\ pharmacist_done = FALSE
    /\ \E c \in Crowds : consulted = [p \in c |-> 0]
    /\ pc = [t \in Threads |-> IF t = Doctor THEN "loop" ELSE "travel"]
    /\ woken = {}

(***************************************************************************)
(* doctor_thread.                                                          *)
(***************************************************************************)
CanConsult == waiting_patients >= GroupSize /\ meds >= GroupSize
CanReceive == waiting_pharmacists > 0 /\ meds < APTEKA_CAPACITY

DoctorRuns == GetsMutex(Doctor, "loop", "cond_doctor")

\* The pharmacists the doctor sends home when he leaves.
ClosingWakes == Waiters("cond_not_full") \cup Waiters("cond_pharmacist_queue")

\* All patients are treated: raise done_flag and let the pharmacists go.
DoctorEnds ==
    /\ DoctorRuns
    /\ patients_treated >= total_patients
    /\ done_flag' = TRUE
    /\ GivesMutex(Doctor, "ended", ClosingWakes)
    /\ UNCHANGED <<waiting_patient_ids, counters, pharmacist_served, pharmacist_done,
                   consulted>>

\* Nothing to do: wait on cond_doctor.
DoctorSleeps ==
    /\ DoctorRuns
    /\ patients_treated < total_patients
    /\ ~CanConsult /\ ~CanReceive
    /\ GivesMutex(Doctor, "cond_doctor", {})
    /\ UNCHANGED <<waiting_patient_ids, counters, flags, consulted>>

\* Mutant: the list of waiting patients is not emptied.
ListAfterConsultation_Kept == waiting_patient_ids

\* waiting_patients = 0
ListAfterConsultation == <<>>

\* Start consulting the seated group; one pharmacist is told that meds were used.
StartConsultation ==
    /\ DoctorRuns
    /\ patients_treated < total_patients
    /\ CanConsult
    /\ waiting_patient_ids' = ListAfterConsultation
    /\ meds' = meds - GroupSize
    /\ patients_treated' = patients_treated + GroupSize
    /\ consulted' = [p \in Patients |->
           consulted[p] + Cardinality({i \in 1 .. GroupSize : waiting_patient_ids[i] = p})]
    /\ \E W \in Wakes("cond_not_full") : GivesMutex(Doctor, "consulting", W)
    /\ UNCHANGED <<waiting_pharmacists, flags>>

\* Mutant: pthread_cond_signal in place of pthread_cond_broadcast.
FinishConsultation_Signal ==
    /\ pc[Doctor] = "consulting"
    /\ \E W \in Wakes("cond_patient") : GivesMutex(Doctor, "loop", W)
    /\ UNCHANGED <<waiting_patient_ids, counters, flags, consulted>>

\* After the sleep: wake every patient on cond_patient.
FinishConsultation ==
    /\ pc[Doctor] = "consulting"
    /\ GivesMutex(Doctor, "loop", Waiters("cond_patient"))
    /\ UNCHANGED <<waiting_patient_ids, counters, flags, consulted>>

\* A group that can be consulted goes before a delivery.
StartDelivery ==
    /\ DoctorRuns
    /\ patients_treated < total_patients
    /\ ~CanConsult /\ CanReceive
    /\ pharmacist_served' = TRUE
    /\ \E W \in Wakes("cond_pharmacist_queue") : GivesMutex(Doctor, "receiving", W)
    /\ UNCHANGED <<waiting_patient_ids, counters, done_flag, pharmacist_done, consulted>>

\* After the sleep: the kit is full.
FinishDelivery ==
    /\ pc[Doctor] = "receiving"
    /\ meds' = APTEKA_CAPACITY
    /\ pharmacist_done' = TRUE
    /\ \E W \in Wakes("cond_pharmacist_done") : GivesMutex(Doctor, "loop", W)
    /\ UNCHANGED <<waiting_patient_ids, waiting_pharmacists, patients_treated,
                   done_flag, pharmacist_served, consulted>>

DoctorThread ==
    \/ DoctorEnds \/ DoctorSleeps
    \/ StartConsultation \/ FinishConsultation
    \/ StartDelivery \/ FinishDelivery

(***************************************************************************)
(* patient_thread.                                                         *)
(***************************************************************************)
\* Mutant: the seats are not counted.
SeatFree_Always == TRUE

SeatFree == waiting_patients # GroupSize

\* Mutant: off by one.
CompletesGroup_OffByOne == waiting_patients = GroupSize

\* Sitting down now completes the group.
CompletesGroup == waiting_patients + 1 = GroupSize

\* All seats taken: walk around, then travel again, both without the mutex.
RoomFull(p) == pc[p] = "travel" /\ ~SeatFree /\ UNCHANGED vars

\* Take a seat; the one who completes the group wakes the doctor.
SitDown(p) ==
    /\ pc[p] = "travel"
    /\ SeatFree
    /\ waiting_patient_ids' = Append(waiting_patient_ids, p)
    /\ \E W \in IF CompletesGroup THEN Wakes("cond_doctor") ELSE {{}} :
           GivesMutex(p, "cond_patient", W)
    /\ UNCHANGED <<counters, flags, consulted>>

\* The wait on cond_patient has no condition to check again: any wake ends the visit.
LeaveHospital(p) ==
    /\ pc[p] = "cond_patient" /\ p \in woken
    /\ GivesMutex(p, "ended", {})
    /\ UNCHANGED <<waiting_patient_ids, counters, flags, consulted>>

Patient(p) == RoomFull(p) \/ SitDown(p) \/ LeaveHospital(p)

(***************************************************************************)
(* pharmacist_thread.                                                      *)
(***************************************************************************)
PharmacistRuns(f) == GetsMutex(f, "travel", "cond_not_full")

WaitForRoom(f) ==
    /\ PharmacistRuns(f)
    /\ meds = APTEKA_CAPACITY /\ ~done_flag
    /\ GivesMutex(f, "cond_not_full", {})
    /\ UNCHANGED <<waiting_patient_ids, counters, flags, consulted>>

\* The hospital has closed, or enough meds are left: go without delivering.
GoAway(f) ==
    /\ PharmacistRuns(f)
    /\ done_flag \/ (meds # APTEKA_CAPACITY /\ meds >= GroupSize)
    /\ GivesMutex(f, "ended", {})
    /\ UNCHANGED <<waiting_patient_ids, counters, flags, consulted>>

\* The pharmacist is being served: the delivery is over, or wait until it is.
HandOver(f, W) ==
    /\ pharmacist_served' = FALSE
    /\ pharmacist_done' = FALSE
    /\ GivesMutex(f, IF pharmacist_done THEN "ended" ELSE "cond_pharmacist_done", W)

\* Mutant: the doctor is not woken.
OfferWakes_Nobody == {{}}

\* pthread_cond_signal(&cond_doctor)
OfferWakes == Wakes("cond_doctor")

\* Mutant: the pharmacist who is served at once stays counted.
OfferMeds_ServedStaysCounted(f) ==
    /\ PharmacistRuns(f)
    /\ ~done_flag /\ meds # APTEKA_CAPACITY /\ meds < GroupSize
    /\ waiting_pharmacists' = waiting_pharmacists + 1
    /\ \E W \in OfferWakes :
           IF pharmacist_served
           THEN HandOver(f, W)
           ELSE /\ GivesMutex(f, "cond_pharmacist_queue", W)
                /\ UNCHANGED <<pharmacist_served, pharmacist_done>>
    /\ UNCHANGED <<waiting_patient_ids, meds, patients_treated, done_flag, consulted>>

\* Wake the doctor and queue, unless a delivery nobody has claimed is under way.
OfferMeds(f) ==
    /\ PharmacistRuns(f)
    /\ ~done_flag /\ meds # APTEKA_CAPACITY /\ meds < GroupSize
    /\ \E W \in OfferWakes :
           IF pharmacist_served
           THEN /\ HandOver(f, W)
                /\ UNCHANGED waiting_pharmacists
           ELSE /\ waiting_pharmacists' = waiting_pharmacists + 1
                /\ GivesMutex(f, "cond_pharmacist_queue", W)
                /\ UNCHANGED <<pharmacist_served, pharmacist_done>>
    /\ UNCHANGED <<waiting_patient_ids, meds, patients_treated, done_flag, consulted>>

\* Back from cond_pharmacist_queue.
QueueWakes(f) ==
    /\ pc[f] = "cond_pharmacist_queue" /\ f \in woken
    /\ \/ /\ done_flag
          /\ GivesMutex(f, "ended", {})
          /\ UNCHANGED <<waiting_pharmacists, pharmacist_served, pharmacist_done>>
       \/ /\ ~done_flag /\ ~pharmacist_served
          /\ GivesMutex(f, "cond_pharmacist_queue", {})
          /\ UNCHANGED <<waiting_pharmacists, pharmacist_served, pharmacist_done>>
       \/ /\ ~done_flag /\ pharmacist_served
          /\ waiting_pharmacists' = waiting_pharmacists - 1
          /\ HandOver(f, {})
    /\ UNCHANGED <<waiting_patient_ids, meds, patients_treated, done_flag, consulted>>

\* Back from cond_pharmacist_done.
DoneWakes(f) ==
    /\ pc[f] = "cond_pharmacist_done" /\ f \in woken
    /\ \/ /\ done_flag
          /\ GivesMutex(f, "ended", {})
          /\ UNCHANGED pharmacist_done
       \/ /\ ~done_flag /\ ~pharmacist_done
          /\ GivesMutex(f, "cond_pharmacist_done", {})
          /\ UNCHANGED pharmacist_done
       \/ /\ ~done_flag /\ pharmacist_done
          /\ pharmacist_done' = FALSE
          /\ GivesMutex(f, "ended", {})
    /\ UNCHANGED <<waiting_patient_ids, counters, done_flag, pharmacist_served, consulted>>

Pharmacist(f) ==
    \/ WaitForRoom(f) \/ GoAway(f) \/ OfferMeds(f) \/ QueueWakes(f) \/ DoneWakes(f)

-----------------------------------------------------------------------------
Next ==
    \/ DoctorThread
    \/ \E p \in Patients : Patient(p)
    \/ \E f \in Pharmacists : Pharmacist(f)

Spec == Init /\ [][Next]_vars

\* POSIX lets pthread_cond_wait return without a signal.
SpuriousWakeup(t) ==
    /\ pc[t] \in Conditions /\ t \notin woken
    /\ woken' = woken \cup {t}
    /\ UNCHANGED <<waiting_patient_ids, counters, flags, pc, consulted>>

SpuriousNext == Next \/ \E t \in Threads : SpuriousWakeup(t)
SpuriousSpec == Init /\ [][SpuriousNext]_vars

(***************************************************************************)
(* A thread that can get the mutex gets it eventually: no one keeps it     *)
(* while waiting or sleeping, and all threads but finitely many woken ones *)
(* are asleep most of the time.                                            *)
(***************************************************************************)
Fairness ==
    /\ WF_vars(DoctorThread)
    /\ \A p \in UNION Crowds : WF_vars(p \in Patients /\ Patient(p))
    /\ \A f \in Pharmacists : WF_vars(Pharmacist(f))

\* Wakes without a signal may happen, and nothing relies on them.
FairSpec == SpuriousSpec /\ Fairness

-----------------------------------------------------------------------------
(***************************************************************************)
(* Properties.                                                             *)
(***************************************************************************)
\* At most GroupSize patients sit in the array, meds stays within the kit, and every
\* thread is at a place of its own function.
TypeOK ==
    /\ waiting_patient_ids \in Seq(Patients) /\ waiting_patients <= GroupSize
    /\ meds \in 0 .. APTEKA_CAPACITY
    /\ waiting_pharmacists \in Nat /\ patients_treated \in Nat
    /\ done_flag \in BOOLEAN /\ pharmacist_served \in BOOLEAN /\ pharmacist_done \in BOOLEAN
    /\ pc \in [Threads -> DoctorPC \cup PatientPC \cup PharmacistPC]
    /\ pc[Doctor] \in DoctorPC
    /\ \A p \in Patients : pc[p] \in PatientPC
    /\ \A f \in Pharmacists : pc[f] \in PharmacistPC
    /\ woken \subseteq {t \in Threads : pc[t] \in Conditions}
    /\ consulted \in [Patients -> Nat]

\* No wake-up is lost: while the doctor sleeps on cond_doctor with no signal on
\* its way there is nothing for him to do, and once he has gone home no
\* pharmacist sleeps on in the queue or in front of the full kit.
NoLostWakeup ==
    /\ Doctor \in Waiters("cond_doctor") =>
           ~CanConsult /\ ~CanReceive /\ patients_treated < total_patients
    /\ done_flag => Waiters("cond_not_full") \cup Waiters("cond_pharmacist_queue") = {}

\* Nobody is forgotten in the waiting room: a patient blocked on cond_patient is
\* either still on the doctor's list or in the group being consulted, whose
\* broadcast is yet to come.
NobodyForgotten ==
    \A p \in Waiters("cond_patient") :
        \/ \E i \in 1 .. waiting_patients : waiting_patient_ids[i] = p
        \/ pc[Doctor] = "consulting" /\ consulted[p] > 0

\* The doctor's count of treated patients is the number of patients he announced
\* consulting, each of them once, and nobody on the list was consulted before:
\* so the hospital closes exactly when everybody has been on a consulted list.
ConsultedOnce ==
    /\ patients_treated = Cardinality({p \in Patients : consulted[p] > 0})
    /\ \A p \in Patients : consulted[p] <= 1
    /\ \A i \in 1 .. waiting_patients : consulted[waiting_patient_ids[i]] = 0
    /\ \A i, j \in 1 .. waiting_patients :
           waiting_patient_ids[i] = waiting_patient_ids[j] => i = j

\* Until the hospital closes, waiting_pharmacists counts the pharmacists in the
\* queue, although a newcomer may take the delivery announced to one of them.
PharmacistsCounted ==
    ~done_flag => waiting_pharmacists =
        Cardinality({f \in Pharmacists : pc[f] = "cond_pharmacist_queue"})

\* The counters stay in their bounds, the seats and the kit included (main.c:135, 205),
\* and count what they are to count.
CountersOK == TypeOK /\ PharmacistsCounted

\* main warns that the last, incomplete group is not consulted, and says it of
\* no other patient.  The code breaks this: FinishConsultation also wakes the
\* patients who sat down during the consultation, and they end their visit.
VisitIncludesConsultation ==
    \A p \in Patients : pc[p] = "ended" => consulted[p] > 0

(***************************************************************************)
(* How a run can end.                                                      *)
(***************************************************************************)
\* Everybody is gone and main joins all threads; or only pharmacists remain who
\* wait for a pharmacist_done that another pharmacist has consumed.
HospitalClosed ==
    \A t \in Threads :
        pc[t] = "ended" \/ (t \in Pharmacists /\ pc[t] = "cond_pharmacist_done")

\* Fewer patients than a group are left: they wait forever, as main warns.
LastGroupLeftOver ==
    /\ patients_treated < total_patients
    /\ total_patients - patients_treated < GroupSize
    /\ pc[Doctor] = "cond_doctor"

\* Not enough meds for a group, and no pharmacist who would bring any.
KitEmpty ==
    /\ patients_treated < total_patients
    /\ meds < GroupSize
    /\ \A f \in Pharmacists : pc[f] \in {"ended", "cond_pharmacist_done"}

\* These are the only ways a run can end: in particular the threads never block
\* each other while there is a full group, meds for it, or a pharmacist to bring
\* them, and with enough meds from the start the hospital always closes.
RunsEnd == <>[](HospitalClosed \/ LastGroupLeftOver \/ KitEmpty)

=============================================================================
