--------------------------- MODULE HospitalProofs ---------------------------
(***************************************************************************)
(* Proofs about the hospital, for any crowd of patients, any number of     *)
(* pharmacists, any size of group and kit.  They are made for SpuriousSpec,*)
(* where pthread_cond_wait may return without a signal, and hold of Spec   *)
(* because Spec implies it.                                                *)
(***************************************************************************)
EXTENDS Hospital, FiniteSetTheorems, SequenceTheorems, TLAPS

LEMMA SpecIsSpurious == Spec => SpuriousSpec
<1>1. [Next]_vars => [SpuriousNext]_vars
  BY DEF SpuriousNext
<1>2. QED
  BY <1>1, PTL DEF Spec, SpuriousSpec

-----------------------------------------------------------------------------
(***************************************************************************)
(* The invariant.  A patient sits down once: whoever is on the list or has *)
(* been consulted is not on his way to the hospital.                       *)
(***************************************************************************)
PlacesOK ==
    /\ pc \in [Threads -> DoctorPC \cup PatientPC \cup PharmacistPC]
    /\ pc[Doctor] \in DoctorPC
    /\ \A p \in Patients : pc[p] \in PatientPC
    /\ \A f \in Pharmacists : pc[f] \in PharmacistPC
    /\ woken \subseteq {t \in Threads : pc[t] \in Conditions}

SeatedOK ==
    /\ Patients \in Crowds
    /\ \A i \in 1 .. waiting_patients : pc[waiting_patient_ids[i]] # "travel"
    /\ \A p \in Patients : consulted[p] > 0 => pc[p] # "travel"
    /\ ConsultedOnce

HospitalInv == TypeOK /\ SeatedOK /\ PharmacistsCounted /\ NoLostWakeup /\ NobodyForgotten

\* The three kinds of thread are different threads, and patients are finitely many.
LEMMA Kinds ==
    ASSUME Patients \in Crowds
    PROVE  /\ Patients \cap Pharmacists = {}
           /\ Doctor \notin Patients /\ Doctor \notin Pharmacists
           /\ IsFiniteSet(Patients) /\ IsFiniteSet(Pharmacists)
<1>1. Patients \subseteq UNION Crowds
  OBVIOUS
<1>2. IsFiniteSet(Patients) /\ IsFiniteSet(Pharmacists)
  BY <1>1, HospitalAssumption, FS_Subset
<1>3. QED
  BY <1>1, <1>2, HospitalAssumption

LEMMA Places == TypeOK => PlacesOK
BY DEF TypeOK, PlacesOK

\* A signal takes a waiter off, if there is one.
LEMMA WakesWaiters ==
    ASSUME NEW c, NEW W \in Wakes(c)
    PROVE  W \subseteq Waiters(c) /\ (Waiters(c) # {} => W # {})
BY DEF Wakes

LEMMA DoctorWaits ==
    ASSUME PlacesOK, Patients \in Crowds
    PROVE  Waiters("cond_doctor") \subseteq {Doctor}
BY Kinds DEF PlacesOK, Waiters, Threads, PatientPC, PharmacistPC

\* A thread goes on to a place of its own and wakes others that wait.
LEMMA GivesPlaces ==
    ASSUME PlacesOK, Patients \in Crowds, Patients' = Patients,
           NEW t \in Threads, NEW to, NEW W, GivesMutex(t, to, W),
           W \subseteq {x \in Threads : pc[x] \in Conditions} \ {t},
           t = Doctor => to \in DoctorPC,
           t \in Patients => to \in PatientPC,
           t \in Pharmacists => to \in PharmacistPC
    PROVE  PlacesOK'
<1>1. Threads' = Threads
  BY DEF Threads
<1>2. pc' = [pc EXCEPT ![t] = to] /\ woken' = (woken \ {t}) \cup W
  BY DEF GivesMutex
<1>3. to \in DoctorPC \cup PatientPC \cup PharmacistPC
  BY DEF Threads
<1>4. pc' \in [Threads -> DoctorPC \cup PatientPC \cup PharmacistPC]
  BY <1>2, <1>3 DEF PlacesOK
<1>5. Doctor \in Threads /\ Patients \subseteq Threads /\ Pharmacists \subseteq Threads
  BY DEF Threads
<1>6. \A x \in Threads : pc'[x] = IF x = t THEN to ELSE pc[x]
  BY <1>2 DEF PlacesOK
<1>7. woken' \subseteq {x \in Threads : pc'[x] \in Conditions}
  BY <1>2, <1>6 DEF PlacesOK
<1>8. QED
  BY <1>1, <1>4, <1>5, <1>6, <1>7 DEF PlacesOK

-----------------------------------------------------------------------------
(* Types. *)

DataOK ==
    /\ waiting_patient_ids \in Seq(Patients) /\ waiting_patients <= GroupSize
    /\ meds \in 0 .. APTEKA_CAPACITY
    /\ waiting_pharmacists \in Nat /\ patients_treated \in Nat
    /\ done_flag \in BOOLEAN /\ pharmacist_served \in BOOLEAN /\ pharmacist_done \in BOOLEAN
    /\ consulted \in [Patients -> Nat]

LEMMA TypeParts == TypeOK <=> DataOK /\ PlacesOK
BY DEF TypeOK, DataOK, PlacesOK

LEMMA TypePartsNext == TypeOK' <=> DataOK' /\ PlacesOK'
BY TypeParts, PTL

LEMMA WaitersMayBeWoken ==
    ASSUME NEW c \in Conditions, NEW t \in Threads, pc[t] # c \/ t \in woken
    PROVE  Waiters(c) \subseteq {x \in Threads : pc[x] \in Conditions} \ {t}
BY DEF Waiters

\* Each of the doctor's steps keeps the types.
LEMMA DoctorType ==
    ASSUME TypeOK, Patients \in Crowds, DoctorThread
    PROVE  TypeOK' /\ Patients' = Patients
<1>1. DataOK /\ PlacesOK
  BY TypeParts
<1>2. /\ GroupSize \in Nat \ {0} /\ APTEKA_CAPACITY \in Nat
      /\ Doctor \in Threads /\ Doctor \notin Patients /\ Doctor \notin Pharmacists
  BY Kinds, HospitalAssumption DEF Threads
<1> DEFINE Sleepers == {x \in Threads : pc[x] \in Conditions} \ {Doctor}
<1>3. \A c \in Conditions \ {"cond_doctor"} :
        DoctorRuns \/ pc[Doctor] \in {"consulting", "receiving"}
          => Waiters(c) \subseteq Sleepers /\ \A W \in Wakes(c) : W \subseteq Sleepers
  <2>1. DoctorRuns => pc[Doctor] \in {"loop", "cond_doctor"}
    BY DEF DoctorRuns, GetsMutex
  <2>2. \A c \in Conditions \ {"cond_doctor"} :
          DoctorRuns \/ pc[Doctor] \in {"consulting", "receiving"} => pc[Doctor] # c
    BY <2>1 DEF Conditions
  <2>3. QED
    BY <1>2, <2>2, WaitersMayBeWoken, WakesWaiters
<1> HIDE DEF Sleepers
<1>4. ASSUME NEW to \in DoctorPC, NEW W, W \subseteq Sleepers, GivesMutex(Doctor, to, W),
             Patients' = Patients
      PROVE  PlacesOK'
  BY <1>1, <1>2, <1>4, GivesPlaces DEF Sleepers
<1>5. CASE DoctorEnds
  <2>1. DataOK' /\ Patients' = Patients
    BY <1>1, <1>5 DEF DoctorEnds, DataOK, Patients, waiting_patients, counters
  <2>2. ClosingWakes \subseteq Sleepers
    BY <1>3, <1>5 DEF DoctorEnds, ClosingWakes, Conditions
  <2>3. PlacesOK'
    BY <1>4, <1>5, <2>1, <2>2 DEF DoctorEnds, DoctorPC
  <2>4. QED
    BY <2>1, <2>3, TypePartsNext
<1>6. CASE DoctorSleeps
  <2>1. DataOK' /\ Patients' = Patients
    BY <1>1, <1>6 DEF DoctorSleeps, DataOK, Patients, waiting_patients, counters, flags
  <2>2. PlacesOK'
    BY <1>4, <1>6, <2>1 DEF DoctorSleeps, DoctorPC
  <2>3. QED
    BY <2>1, <2>2, TypePartsNext
<1>7. CASE StartConsultation
  <2>1. /\ waiting_patient_ids' = <<>> /\ meds >= GroupSize
        /\ meds' = meds - GroupSize /\ patients_treated' = patients_treated + GroupSize
        /\ UNCHANGED <<waiting_pharmacists, flags>>
    BY <1>7 DEF StartConsultation, CanConsult, ListAfterConsultation
  <2>2. Patients' = Patients
    BY <1>7 DEF StartConsultation, Patients
  <2>3. ASSUME NEW p
        PROVE  Cardinality({i \in 1 .. GroupSize : waiting_patient_ids[i] = p}) \in Nat
    <3>1. IsFiniteSet(1 .. GroupSize)
      BY <1>2, FS_Interval
    <3>2. QED
      BY <3>1, FS_Subset, FS_CardinalityType
  <2>4. consulted' \in [Patients -> Nat]
    <3> DEFINE n(p) == Cardinality({i \in 1 .. GroupSize : waiting_patient_ids[i] = p})
    <3>1. consulted' = [p \in Patients |-> consulted[p] + n(p)]
      BY <1>7 DEF StartConsultation
    <3>2. \A p : n(p) \in Nat
      BY <2>3
    <3> HIDE DEF n
    <3>3. \A p \in Patients : consulted[p] + n(p) \in Nat
      BY <1>1, <3>2 DEF DataOK
    <3>4. QED
      BY <3>1, <3>3
  <2>5. DataOK'
    BY <1>1, <1>2, <2>1, <2>2, <2>4 DEF DataOK, waiting_patients, flags
  <2>6. PICK W \in Wakes("cond_not_full") : GivesMutex(Doctor, "consulting", W)
    BY <1>7 DEF StartConsultation
  <2>7. W \subseteq Sleepers
    BY <1>3, <1>7 DEF StartConsultation, Conditions
  <2>8. PlacesOK'
    BY <1>4, <2>2, <2>6, <2>7 DEF DoctorPC
  <2>9. QED
    BY <2>2, <2>5, <2>8, TypePartsNext
<1>8. CASE FinishConsultation
  <2>1. DataOK' /\ Patients' = Patients
    BY <1>1, <1>8 DEF FinishConsultation, DataOK, Patients, waiting_patients, counters, flags
  <2>2. Waiters("cond_patient") \subseteq Sleepers
    BY <1>3, <1>8 DEF FinishConsultation, Conditions
  <2>3. PlacesOK'
    BY <1>4, <1>8, <2>1, <2>2 DEF FinishConsultation, DoctorPC
  <2>4. QED
    BY <2>1, <2>3, TypePartsNext
<1>9. CASE StartDelivery
  <2>1. DataOK' /\ Patients' = Patients
    BY <1>1, <1>9 DEF StartDelivery, DataOK, Patients, waiting_patients, counters
  <2>2. PICK W \in Wakes("cond_pharmacist_queue") : GivesMutex(Doctor, "receiving", W)
    BY <1>9 DEF StartDelivery
  <2>3. W \subseteq Sleepers
    BY <1>3, <1>9 DEF StartDelivery, Conditions
  <2>4. PlacesOK'
    BY <1>4, <2>1, <2>2, <2>3 DEF DoctorPC
  <2>5. QED
    BY <2>1, <2>4, TypePartsNext
<1>10. CASE FinishDelivery
  <2>1. DataOK' /\ Patients' = Patients
    BY <1>1, <1>2, <1>10 DEF FinishDelivery, DataOK, Patients, waiting_patients
  <2>2. PICK W \in Wakes("cond_pharmacist_done") : GivesMutex(Doctor, "loop", W)
    BY <1>10 DEF FinishDelivery
  <2>3. W \subseteq Sleepers
    BY <1>3, <1>10 DEF FinishDelivery, Conditions
  <2>4. PlacesOK'
    BY <1>4, <2>1, <2>2, <2>3 DEF DoctorPC
  <2>5. QED
    BY <2>1, <2>4, TypePartsNext
<1>11. QED
  BY <1>5, <1>6, <1>7, <1>8, <1>9, <1>10 DEF DoctorThread

LEMMA PatientType ==
    ASSUME TypeOK, Patients \in Crowds, NEW p \in Patients, Patient(p)
    PROVE  TypeOK' /\ Patients' = Patients
<1>1. /\ DataOK /\ PlacesOK
      /\ p \in Threads /\ p # Doctor /\ p \notin Pharmacists
      /\ GroupSize \in Nat \ {0}
  BY TypeParts, Kinds, HospitalAssumption DEF Threads
<1>2. CASE RoomFull(p)
  BY <1>2 DEF RoomFull, vars, TypeOK, counters, flags, Patients, Threads, waiting_patients
<1>3. CASE SitDown(p)
  <2>1. DataOK' /\ Patients' = Patients
    <3>1. /\ Append(waiting_patient_ids, p) \in Seq(Patients)
          /\ Len(Append(waiting_patient_ids, p)) = waiting_patients + 1
          /\ waiting_patients \in Nat
      BY <1>1 DEF DataOK, waiting_patients
    <3>2. Patients' = Patients
      BY <1>3 DEF SitDown, Patients
    <3>3. QED
      BY <1>1, <1>3, <3>1, <3>2
         DEF SitDown, SeatFree, DataOK, waiting_patients, counters, flags
  <2>2. PICK W \in IF CompletesGroup THEN Wakes("cond_doctor") ELSE {{}} :
          GivesMutex(p, "cond_patient", W)
    BY <1>3 DEF SitDown
  <2>3. W \subseteq {x \in Threads : pc[x] \in Conditions} \ {p}
    <3>1. Waiters("cond_doctor") \subseteq {x \in Threads : pc[x] \in Conditions} \ {p}
      BY <1>1, <1>3, WaitersMayBeWoken DEF SitDown, Conditions
    <3>2. QED
      BY <2>2, <3>1, WakesWaiters
  <2>4. PlacesOK'
    BY <1>1, <2>1, <2>2, <2>3, GivesPlaces DEF PatientPC
  <2>5. QED
    BY <2>1, <2>4, TypePartsNext
<1>4. CASE LeaveHospital(p)
  <2>1. DataOK' /\ Patients' = Patients
    BY <1>1, <1>4 DEF LeaveHospital, DataOK, Patients, waiting_patients, counters, flags
  <2>2. PlacesOK'
    BY <1>1, <1>4, <2>1, GivesPlaces DEF LeaveHospital, PatientPC
  <2>3. QED
    BY <2>1, <2>2, TypePartsNext
<1>5. QED
  BY <1>2, <1>3, <1>4 DEF Patient

\* A pharmacist who is taken out of the queue was counted.
LEMMA QueueCounted ==
    ASSUME TypeOK, PharmacistsCounted, ~done_flag,
           NEW f \in Pharmacists, pc[f] = "cond_pharmacist_queue"
    PROVE  waiting_pharmacists > 0
<1> DEFINE Q == {g \in Pharmacists : pc[g] = "cond_pharmacist_queue"}
<1>1. IsFiniteSet(Q) /\ Cardinality(Q) \in Nat
  BY HospitalAssumption, FS_Subset, FS_CardinalityType
<1>2. f \in Q /\ waiting_pharmacists = Cardinality(Q)
  BY DEF PharmacistsCounted
<1> HIDE DEF Q
<1>3. QED
  BY <1>1, <1>2, FS_EmptySet

LEMMA PharmacistType ==
    ASSUME TypeOK, Patients \in Crowds, PharmacistsCounted,
           NEW f \in Pharmacists, Pharmacist(f)
    PROVE  TypeOK' /\ Patients' = Patients
<1>1. /\ DataOK /\ PlacesOK
      /\ f \in Threads /\ f # Doctor /\ f \notin Patients
  BY TypeParts, Kinds DEF Threads
<1>2. Patients' = Patients
  BY DEF Pharmacist, WaitForRoom, GoAway, OfferMeds, QueueWakes, DoneWakes, Patients
<1> DEFINE Sleepers == {x \in Threads : pc[x] \in Conditions} \ {f}
<1>3. ASSUME NEW to \in PharmacistPC, NEW W, W \subseteq Sleepers, GivesMutex(f, to, W)
      PROVE  PlacesOK'
  BY <1>1, <1>2, <1>3, GivesPlaces
<1>4. \A W \in OfferWakes : W \subseteq Sleepers
  <2>1. pc[f] # "cond_doctor"
    BY <1>1 DEF PlacesOK, PharmacistPC
  <2>2. Waiters("cond_doctor") \subseteq Sleepers
    BY <1>1, <2>1, WaitersMayBeWoken DEF Conditions
  <2>3. QED
    BY <2>2, WakesWaiters DEF OfferWakes
<1>5. {} \subseteq Sleepers
  OBVIOUS
<1> HIDE DEF Sleepers
<1> USE DEF PharmacistPC
<1>6. CASE WaitForRoom(f) \/ GoAway(f)
  <2>1. DataOK'
    BY <1>1, <1>2, <1>6 DEF WaitForRoom, GoAway, DataOK, waiting_patients, counters, flags
  <2>2. PlacesOK'
    BY <1>3, <1>5, <1>6 DEF WaitForRoom, GoAway
  <2>3. QED
    BY <1>2, <2>1, <2>2, TypePartsNext
<1>7. CASE OfferMeds(f)
  <2>1. DataOK'
    <3>1. waiting_pharmacists' \in Nat
      BY <1>1, <1>7 DEF OfferMeds, DataOK
    <3>2. pharmacist_served' \in BOOLEAN /\ pharmacist_done' \in BOOLEAN
      BY <1>1, <1>7 DEF OfferMeds, HandOver, DataOK
    <3>3. UNCHANGED <<waiting_patient_ids, meds, patients_treated, done_flag, consulted>>
      BY <1>7 DEF OfferMeds
    <3>4. QED
      BY <1>1, <1>2, <3>1, <3>2, <3>3 DEF DataOK, waiting_patients
  <2>2. PICK W \in OfferWakes :
          \/ HandOver(f, W)
          \/ GivesMutex(f, "cond_pharmacist_queue", W)
    BY <1>7 DEF OfferMeds
  <2>3. PlacesOK'
    BY <1>3, <1>4, <2>2 DEF HandOver
  <2>4. QED
    BY <1>2, <2>1, <2>3, TypePartsNext
<1>8. CASE QueueWakes(f)
  <2>1. DataOK'
    <3>1. waiting_pharmacists' \in Nat
      BY <1>1, <1>8, QueueCounted DEF QueueWakes, DataOK
    <3>2. pharmacist_served' \in BOOLEAN /\ pharmacist_done' \in BOOLEAN
      BY <1>1, <1>8 DEF QueueWakes, HandOver, DataOK
    <3>3. QED
      BY <1>1, <1>2, <1>8, <3>1, <3>2 DEF QueueWakes, DataOK, waiting_patients
  <2>2. PlacesOK'
    BY <1>3, <1>5, <1>8 DEF QueueWakes, HandOver
  <2>3. QED
    BY <1>2, <2>1, <2>2, TypePartsNext
<1>9. CASE DoneWakes(f)
  <2>1. DataOK'
    BY <1>1, <1>2, <1>9 DEF DoneWakes, DataOK, waiting_patients, counters
  <2>2. PlacesOK'
    BY <1>3, <1>5, <1>9 DEF DoneWakes
  <2>3. QED
    BY <1>2, <2>1, <2>2, TypePartsNext
<1>10. QED
  BY <1>6, <1>7, <1>8, <1>9 DEF Pharmacist

\* A wake without a signal, and a step that changes nothing.
LEMMA OtherType ==
    ASSUME TypeOK, (\E t \in Threads : SpuriousWakeup(t)) \/ UNCHANGED vars
    PROVE  TypeOK' /\ Patients' = Patients
<1>1. CASE \E t \in Threads : SpuriousWakeup(t)
  BY <1>1 DEF SpuriousWakeup, TypeOK, counters, flags, Patients, Threads, waiting_patients
<1>2. CASE UNCHANGED vars
  BY <1>2 DEF vars, TypeOK, counters, flags, Patients, Threads, waiting_patients
<1>3. QED
  BY <1>1, <1>2

\* Every step is one of these, and keeps the types and the crowd.
LEMMA StepType ==
    ASSUME TypeOK, Patients \in Crowds, PharmacistsCounted, [SpuriousNext]_vars
    PROVE  TypeOK' /\ Patients' = Patients
<1>1. CASE DoctorThread
  BY <1>1, DoctorType
<1>2. ASSUME NEW p \in Patients, Patient(p) PROVE TypeOK' /\ Patients' = Patients
  BY <1>2, PatientType
<1>3. ASSUME NEW f \in Pharmacists, Pharmacist(f) PROVE TypeOK' /\ Patients' = Patients
  BY <1>3, PharmacistType
<1>4. QED
  BY <1>1, <1>2, <1>3, OtherType DEF SpuriousNext, Next

-----------------------------------------------------------------------------
(* The pharmacists in the queue. *)

Queued == {f \in Pharmacists : pc[f] = "cond_pharmacist_queue"}

\* How the queue changes when one thread moves.
LEMMA QueuedMove ==
    ASSUME PlacesOK, NEW t \in Threads, NEW to, NEW W, GivesMutex(t, to, W)
    PROVE  /\ Cardinality(Queued) \in Nat
           /\ t \in Pharmacists /\ pc[t] # "cond_pharmacist_queue"
                                /\ to = "cond_pharmacist_queue"
                => Cardinality(Queued') = Cardinality(Queued) + 1
           /\ t \in Pharmacists /\ pc[t] = "cond_pharmacist_queue"
                                /\ to # "cond_pharmacist_queue"
                => Cardinality(Queued') = Cardinality(Queued) - 1
           /\ t \notin Pharmacists \/ (pc[t] = "cond_pharmacist_queue"
                                          <=> to = "cond_pharmacist_queue")
                => Queued' = Queued
<1>1. IsFiniteSet(Queued) /\ Cardinality(Queued) \in Nat
  BY HospitalAssumption, FS_Subset, FS_CardinalityType DEF Queued
<1>2. \A x \in Pharmacists : pc'[x] = IF x = t THEN to ELSE pc[x]
  BY DEF GivesMutex, PlacesOK, Threads
<1>3. CASE t \in Pharmacists /\ pc[t] # "cond_pharmacist_queue"
                             /\ to = "cond_pharmacist_queue"
  <2>1. Queued' = Queued \cup {t} /\ t \notin Queued
    BY <1>2, <1>3 DEF Queued
  <2>2. QED
    BY <1>1, <1>3, <2>1, FS_AddElement
<1>4. CASE t \in Pharmacists /\ pc[t] = "cond_pharmacist_queue"
                             /\ to # "cond_pharmacist_queue"
  <2>1. Queued' = Queued \ {t} /\ t \in Queued
    BY <1>2, <1>4 DEF Queued
  <2>2. QED
    BY <1>1, <1>4, <2>1, FS_RemoveElement
<1>5. CASE t \notin Pharmacists \/ (pc[t] = "cond_pharmacist_queue"
                                       <=> to = "cond_pharmacist_queue")
  <2>1. Queued' = Queued
    BY <1>2, <1>5 DEF Queued
  <2>2. QED
    BY <1>1, <1>5, <2>1
<1>6. QED
  BY <1>3, <1>4, <1>5

\* The counter follows, until the hospital closes.
LEMMA StepCounted ==
    ASSUME TypeOK, Patients \in Crowds, PharmacistsCounted, [SpuriousNext]_vars
    PROVE  PharmacistsCounted'
<1>1. PlacesOK /\ Doctor \in Threads /\ Doctor \notin Pharmacists
      /\ Patients \subseteq Threads /\ Pharmacists \subseteq Threads
      /\ Patients \cap Pharmacists = {} /\ done_flag \in BOOLEAN
  BY Places, Kinds DEF Threads, TypeOK
<1>2. ASSUME UNCHANGED <<waiting_pharmacists, done_flag>>, Queued' = Queued
      PROVE  PharmacistsCounted'
  BY <1>2 DEF PharmacistsCounted, Queued
<1>3. CASE DoctorThread
  <2>1. CASE DoctorEnds
    BY <2>1 DEF DoctorEnds, PharmacistsCounted
  <2>2. \/ DoctorEnds
        \/ /\ UNCHANGED <<waiting_pharmacists, done_flag>>
           /\ \E to, W : GivesMutex(Doctor, to, W)
    BY <1>3 DEF DoctorThread, DoctorSleeps, StartConsultation, FinishConsultation,
                StartDelivery, FinishDelivery, counters, flags
  <2>3. QED
    BY <1>1, <1>2, <2>1, <2>2, QueuedMove
<1>4. ASSUME NEW p \in Patients, Patient(p) PROVE PharmacistsCounted'
  <2>1. CASE RoomFull(p)
    BY <1>2, <2>1 DEF RoomFull, vars, counters, flags, Queued
  <2>2. \/ RoomFull(p)
        \/ /\ UNCHANGED <<waiting_pharmacists, done_flag>>
           /\ \E to, W : GivesMutex(p, to, W)
    BY <1>4 DEF Patient, SitDown, LeaveHospital, counters, flags
  <2>3. QED
    BY <1>1, <1>2, <2>1, <2>2, QueuedMove
<1>5. ASSUME NEW f \in Pharmacists, Pharmacist(f) PROVE PharmacistsCounted'
  <2>1. CASE WaitForRoom(f) \/ GoAway(f) \/ DoneWakes(f)
    <3>1. /\ pc[f] # "cond_pharmacist_queue"
          /\ UNCHANGED <<waiting_pharmacists, done_flag>>
          /\ \E to, W : to # "cond_pharmacist_queue" /\ GivesMutex(f, to, W)
      BY <2>1 DEF WaitForRoom, GoAway, DoneWakes, PharmacistRuns, GetsMutex, counters, flags
    <3>2. QED
      BY <1>1, <1>2, <3>1, QueuedMove
  <2>2. CASE OfferMeds(f)
    <3>1. pc[f] # "cond_pharmacist_queue" /\ done_flag' = done_flag
      BY <2>2 DEF OfferMeds, PharmacistRuns, GetsMutex
    <3>2. \/ /\ waiting_pharmacists' = waiting_pharmacists
             /\ \E to, W : to # "cond_pharmacist_queue" /\ GivesMutex(f, to, W)
          \/ /\ waiting_pharmacists' = waiting_pharmacists + 1
             /\ \E W : GivesMutex(f, "cond_pharmacist_queue", W)
      <4>1. PICK W \in OfferWakes :
              IF pharmacist_served
              THEN HandOver(f, W) /\ UNCHANGED waiting_pharmacists
              ELSE /\ waiting_pharmacists' = waiting_pharmacists + 1
                   /\ GivesMutex(f, "cond_pharmacist_queue", W)
        BY <2>2 DEF OfferMeds
      <4>2. HandOver(f, W) => \E to : to # "cond_pharmacist_queue" /\ GivesMutex(f, to, W)
        BY DEF HandOver
      <4>3. QED
        BY <4>1, <4>2
    <3>3. CASE waiting_pharmacists' = waiting_pharmacists
               /\ \E to, W : to # "cond_pharmacist_queue" /\ GivesMutex(f, to, W)
      BY <1>1, <1>2, <3>1, <3>3, QueuedMove
    <3>4. CASE waiting_pharmacists' = waiting_pharmacists + 1
               /\ \E W : GivesMutex(f, "cond_pharmacist_queue", W)
      <4>1. Cardinality(Queued') = Cardinality(Queued) + 1
        BY <1>1, <3>1, <3>4, QueuedMove
      <4>2. QED
        BY <3>1, <3>4, <4>1 DEF PharmacistsCounted, Queued
    <3>5. QED
      BY <3>2, <3>3, <3>4
  <2>3. CASE QueueWakes(f)
    <3>1. pc[f] = "cond_pharmacist_queue" /\ done_flag' = done_flag
      BY <2>3 DEF QueueWakes
    <3>2. \/ done_flag
          \/ /\ waiting_pharmacists' = waiting_pharmacists
             /\ GivesMutex(f, "cond_pharmacist_queue", {})
          \/ /\ waiting_pharmacists' = waiting_pharmacists - 1
             /\ \E to : to # "cond_pharmacist_queue" /\ GivesMutex(f, to, {})
      <4>1. HandOver(f, {}) => \E to : to # "cond_pharmacist_queue" /\ GivesMutex(f, to, {})
        BY DEF HandOver
      <4>2. QED
        BY <2>3, <4>1 DEF QueueWakes
    <3>3. CASE done_flag
      BY <1>1, <3>1, <3>3 DEF PharmacistsCounted
    <3>4. CASE waiting_pharmacists' = waiting_pharmacists
               /\ GivesMutex(f, "cond_pharmacist_queue", {})
      BY <1>1, <1>2, <3>1, <3>4, QueuedMove
    <3>5. CASE waiting_pharmacists' = waiting_pharmacists - 1
               /\ \E to : to # "cond_pharmacist_queue" /\ GivesMutex(f, to, {})
      <4>1. Cardinality(Queued') = Cardinality(Queued) - 1
        BY <1>1, <3>1, <3>5, QueuedMove
      <4>2. QED
        BY <3>1, <3>5, <4>1 DEF PharmacistsCounted, Queued
    <3>6. QED
      BY <3>2, <3>3, <3>4, <3>5
  <2>4. QED
    BY <1>5, <2>1, <2>2, <2>3 DEF Pharmacist
<1>6. CASE \E t \in Threads : SpuriousWakeup(t)
  BY <1>2, <1>6 DEF SpuriousWakeup, counters, flags, Queued
<1>7. CASE UNCHANGED vars
  BY <1>2, <1>7 DEF vars, counters, flags, Queued
<1>8. QED
  BY <1>3, <1>4, <1>5, <1>6, <1>7 DEF SpuriousNext, Next

-----------------------------------------------------------------------------
(* The seats and who was consulted. *)

\* Steps that leave the list and the record of consultations alone.
LEMMA SeatedQuiet ==
    ASSUME TypeOK, SeatedOK,
           UNCHANGED <<waiting_patient_ids, patients_treated, consulted>>,
           pc' = pc \/ \E t, to, W : to # "travel" /\ GivesMutex(t, to, W)
    PROVE  SeatedOK'
<1>1. \A x \in Threads : pc[x] # "travel" => pc'[x] # "travel"
  BY DEF GivesMutex, TypeOK
<1>2. Patients \subseteq Threads /\ Patients' = Patients
  BY DEF Threads, Patients
<1>3. \A i \in 1 .. waiting_patients : waiting_patient_ids[i] \in Patients
  BY DEF TypeOK, waiting_patients
<1>4. QED
  BY <1>1, <1>2, <1>3 DEF SeatedOK, ConsultedOnce, waiting_patients

\* A patient sits down who was on the way: not on the list and not consulted.
LEMMA SeatedSitDown ==
    ASSUME TypeOK, SeatedOK, NEW p \in Patients, SitDown(p)
    PROVE  SeatedOK'
<1>1. /\ pc[p] = "travel" /\ pc' = [pc EXCEPT ![p] = "cond_patient"]
      /\ waiting_patient_ids' = Append(waiting_patient_ids, p)
      /\ UNCHANGED <<patients_treated, consulted>>
  BY DEF SitDown, GivesMutex, counters
<1> DEFINE n == waiting_patients
<1>2. /\ n \in Nat /\ waiting_patients' = n + 1
      /\ \A i \in 1 .. n : waiting_patient_ids'[i] = waiting_patient_ids[i]
      /\ \A i \in 1 .. n : waiting_patient_ids[i] \in Patients
      /\ waiting_patient_ids'[n + 1] = p
  BY <1>1 DEF TypeOK, waiting_patients
<1> HIDE DEF n
<1>3. \A i \in 1 .. n : waiting_patient_ids[i] # p /\ pc[waiting_patient_ids[i]] # "travel"
  BY <1>1 DEF SeatedOK, n
<1>4. consulted[p] = 0
  BY <1>1 DEF SeatedOK, TypeOK
<1>5. Patients' = Patients /\ Patients \subseteq Threads
  BY <1>1 DEF Patients, Threads
<1>6. \A x \in Threads : pc'[x] = IF x = p THEN "cond_patient" ELSE pc[x]
  BY <1>1 DEF TypeOK
<1>7. \A i \in 1 .. n + 1 : pc'[waiting_patient_ids'[i]] # "travel"
  BY <1>2, <1>3, <1>5, <1>6
<1>8. \A i \in 1 .. n + 1 : consulted[waiting_patient_ids'[i]] = 0
  BY <1>2, <1>4 DEF SeatedOK, ConsultedOnce, n
<1>9. \A i, j \in 1 .. n + 1 : waiting_patient_ids'[i] = waiting_patient_ids'[j] => i = j
  BY <1>2, <1>3 DEF SeatedOK, ConsultedOnce, n
<1>10. ConsultedOnce'
  <2>1. patients_treated' = Cardinality({q \in Patients' : consulted'[q] > 0})
    BY <1>1, <1>5 DEF SeatedOK, ConsultedOnce
  <2>2. \A q \in Patients' : consulted'[q] <= 1
    BY <1>1, <1>5 DEF SeatedOK, ConsultedOnce
  <2>3. QED
    BY <1>2, <1>8, <1>9, <2>1, <2>2, <1>1 DEF ConsultedOnce
<1>11. \A q \in Patients' : consulted'[q] > 0 => pc'[q] # "travel"
  BY <1>1, <1>5, <1>6 DEF SeatedOK
<1>12. QED
  BY <1>2, <1>5, <1>7, <1>10, <1>11 DEF SeatedOK

\* The group on the list is consulted: GroupSize different patients, none of them
\* for the second time.
LEMMA SeatedConsulted ==
    ASSUME TypeOK, SeatedOK, StartConsultation
    PROVE  SeatedOK'
<1> DEFINE Group == {waiting_patient_ids[i] : i \in 1 .. GroupSize}
           Before == {p \in Patients : consulted[p] > 0}
           n(p) == Cardinality({i \in 1 .. GroupSize : waiting_patient_ids[i] = p})
<1>1. /\ GroupSize \in Nat \ {0} /\ waiting_patients = GroupSize
      /\ waiting_patient_ids \in [1 .. GroupSize -> Patients]
      /\ patients_treated \in Nat /\ consulted \in [Patients -> Nat]
      /\ IsFiniteSet(Patients)
  BY HospitalAssumption, Kinds
     DEF StartConsultation, CanConsult, TypeOK, waiting_patients, SeatedOK
<1>2. /\ waiting_patient_ids' = <<>> /\ patients_treated' = patients_treated + GroupSize
      /\ consulted' = [p \in Patients |-> consulted[p] + n(p)]
      /\ \E W : GivesMutex(Doctor, "consulting", W)
  BY DEF StartConsultation, ListAfterConsultation
<1>3. /\ \A i, j \in 1 .. GroupSize : waiting_patient_ids[i] = waiting_patient_ids[j] => i = j
      /\ \A i \in 1 .. GroupSize : /\ consulted[waiting_patient_ids[i]] = 0
                                   /\ pc[waiting_patient_ids[i]] # "travel"
      /\ patients_treated = Cardinality(Before)
      /\ \A p \in Patients : consulted[p] <= 1 /\ (consulted[p] > 0 => pc[p] # "travel")
  BY <1>1 DEF SeatedOK, ConsultedOnce
<1>4. ASSUME NEW p \in Patients PROVE n(p) = IF p \in Group THEN 1 ELSE 0
  <2> DEFINE at == {i \in 1 .. GroupSize : waiting_patient_ids[i] = p}
  <2>1. CASE p \in Group
    <3>1. PICK k \in 1 .. GroupSize : waiting_patient_ids[k] = p
      BY <2>1
    <3>2. at = {k}
      BY <1>3, <3>1
    <3>3. QED
      BY <2>1, <3>2, FS_Singleton
  <2>2. CASE p \notin Group
    <3>1. at = {}
      BY <2>2
    <3>2. QED
      BY <2>2, <3>1, FS_EmptySet
  <2>3. QED
    BY <2>1, <2>2
<1> HIDE DEF n
<1>5. Group \subseteq Patients /\ \A p \in Group : consulted[p] = 0 /\ pc[p] # "travel"
  BY <1>1, <1>3
<1>6. IsFiniteSet(Group) /\ Cardinality(Group) = GroupSize
  <2>1. IsFiniteSet(1 .. GroupSize) /\ Cardinality(1 .. GroupSize) = GroupSize
    BY <1>1, FS_Interval
  <2>2. waiting_patient_ids \in Bijection(1 .. GroupSize, Group)
    <3>1. waiting_patient_ids \in [1 .. GroupSize -> Group]
      BY <1>1
    <3>2. QED
      BY <1>3, <3>1 DEF Bijection, Injection, Surjection, IsInjective
  <2>3. ExistsBijection(1 .. GroupSize, Group)
    BY <2>2 DEF ExistsBijection
  <2> HIDE DEF Group
  <2>4. QED
    BY <2>1, <2>3, FS_Bijection
<1>7. Patients' = Patients /\ \A p \in Patients :
        consulted'[p] = IF p \in Group THEN consulted[p] + 1 ELSE consulted[p]
  <2>1. Patients' = Patients
    BY <1>2 DEF Patients
  <2> HIDE DEF Group
  <2>2. QED
    BY <1>1, <1>2, <1>4, <2>1
<1>8. {p \in Patients : consulted'[p] > 0} = Before \cup Group /\ Before \cap Group = {}
  <2> HIDE DEF Group
  <2>1. \A p \in Patients : consulted'[p] > 0 <=> consulted[p] > 0 \/ p \in Group
    BY <1>1, <1>5, <1>7
  <2>2. QED
    BY <1>5, <2>1
<1>9. patients_treated' = Cardinality({p \in Patients' : consulted'[p] > 0})
  <2>1. IsFiniteSet(Before) /\ Cardinality(Before) \in Nat
    BY <1>1, FS_Subset, FS_CardinalityType
  <2> HIDE DEF Group, Before
  <2>2. Cardinality(Before \cup Group) =
          Cardinality(Before) + Cardinality(Group) - Cardinality({})
    BY <1>6, <1>8, <2>1, FS_Union
  <2>3. Cardinality(Before \cup Group) = patients_treated + GroupSize
    BY <1>1, <1>3, <1>6, <2>1, <2>2, FS_EmptySet
  <2>4. QED
    BY <1>2, <1>7, <1>8, <2>3
<1> HIDE DEF Group, Before
<1>10. \A p \in Patients : consulted'[p] <= 1
  BY <1>1, <1>3, <1>5, <1>7
<1>11. 1 .. waiting_patients' = {}
  BY <1>2 DEF waiting_patients
<1>12. ASSUME NEW p \in Patients, consulted'[p] > 0 PROVE pc'[p] # "travel"
  <2>1. pc[p] # "travel"
    BY <1>1, <1>3, <1>5, <1>7, <1>12
  <2>2. QED
    BY <1>2, <2>1 DEF GivesMutex, TypeOK, Threads
<1>13. QED
  BY <1>7, <1>9, <1>10, <1>11, <1>12 DEF SeatedOK, ConsultedOnce

LEMMA StepSeated ==
    ASSUME TypeOK, SeatedOK, [SpuriousNext]_vars
    PROVE  SeatedOK'
<1>1. CASE StartConsultation
  BY <1>1, SeatedConsulted
<1>2. CASE DoctorEnds \/ DoctorSleeps \/ FinishConsultation \/ StartDelivery \/ FinishDelivery
  <2>1. /\ UNCHANGED <<waiting_patient_ids, patients_treated, consulted>>
        /\ \E t, to, W : to # "travel" /\ GivesMutex(t, to, W)
    BY <1>2 DEF DoctorEnds, DoctorSleeps, FinishConsultation, StartDelivery, FinishDelivery,
                counters
  <2>2. QED
    BY <2>1, SeatedQuiet
<1>3. ASSUME NEW p \in Patients, Patient(p) PROVE SeatedOK'
  <2>1. CASE SitDown(p)
    BY <2>1, SeatedSitDown
  <2>2. CASE RoomFull(p)
    BY <2>2, SeatedQuiet DEF RoomFull, vars, counters
  <2>3. CASE LeaveHospital(p)
    <3>1. /\ UNCHANGED <<waiting_patient_ids, patients_treated, consulted>>
          /\ \E t, to, W : to # "travel" /\ GivesMutex(t, to, W)
      BY <2>3 DEF LeaveHospital, counters
    <3>2. QED
      BY <3>1, SeatedQuiet
  <2>4. QED
    BY <1>3, <2>1, <2>2, <2>3 DEF Patient
<1>4. ASSUME NEW f \in Pharmacists, Pharmacist(f) PROVE SeatedOK'
  <2>1. UNCHANGED <<waiting_patient_ids, patients_treated, consulted>>
    BY <1>4 DEF Pharmacist, WaitForRoom, GoAway, OfferMeds, QueueWakes, DoneWakes, counters
  <2>2. \E to, W : to # "travel" /\ GivesMutex(f, to, W)
    <3>1. \A W : HandOver(f, W) => \E to : to # "travel" /\ GivesMutex(f, to, W)
      BY DEF HandOver
    <3>2. QED
      BY <1>4, <3>1 DEF Pharmacist, WaitForRoom, GoAway, OfferMeds, QueueWakes, DoneWakes
  <2>3. QED
    BY <2>1, <2>2, SeatedQuiet
<1>5. CASE (\E t \in Threads : SpuriousWakeup(t)) \/ UNCHANGED vars
  BY <1>5, SeatedQuiet DEF SpuriousWakeup, vars, counters
<1>6. QED
  BY <1>1, <1>2, <1>3, <1>4, <1>5 DEF SpuriousNext, Next, DoctorThread

-----------------------------------------------------------------------------
(* Who waits. *)

\* A step takes waiters off and adds at most the thread that makes it.
LEMMA WaitersMove ==
    ASSUME PlacesOK, Patients' = Patients, NEW t \in Threads, NEW to, NEW W,
           GivesMutex(t, to, W), NEW c
    PROVE  /\ c # to => Waiters(c)' \subseteq Waiters(c) \ W
           /\ Waiters(c)' \subseteq (Waiters(c) \ W) \cup {t}
<1>1. Threads' = Threads
  BY DEF Threads
<1>2. \A x \in Threads : pc'[x] = IF x = t THEN to ELSE pc[x]
  BY DEF GivesMutex, PlacesOK
<1>3. \A x \in Threads : x \notin woken' => x \notin W /\ (x # t => x \notin woken)
  BY DEF GivesMutex
<1>4. QED
  BY <1>1, <1>2, <1>3 DEF Waiters

\* The doctor goes to sleep only when there is nothing to do, and wakes the
\* pharmacists when he leaves.
LEMMA DoctorWakeup ==
    ASSUME TypeOK, Patients \in Crowds, NoLostWakeup, DoctorThread
    PROVE  NoLostWakeup'
<1>1. /\ PlacesOK /\ Patients' = Patients /\ Doctor \in Threads
  BY Places, DoctorType DEF Threads
<1>2. CASE DoctorEnds
  <2>1. done_flag' = TRUE /\ GivesMutex(Doctor, "ended", ClosingWakes)
    BY <1>2 DEF DoctorEnds
  <2>2. /\ Waiters("cond_doctor")' \subseteq Waiters("cond_doctor") \ ClosingWakes
        /\ Waiters("cond_not_full")' \subseteq Waiters("cond_not_full") \ ClosingWakes
        /\ Waiters("cond_pharmacist_queue")'
              \subseteq Waiters("cond_pharmacist_queue") \ ClosingWakes
    BY <1>1, <2>1, WaitersMove
  <2>3. Doctor \notin Waiters("cond_doctor")'
    BY <1>1, <2>1 DEF Waiters, GivesMutex, PlacesOK
  <2>4. QED
    BY <2>2, <2>3 DEF NoLostWakeup, ClosingWakes
<1>3. CASE DoctorSleeps
  <2>1. /\ GivesMutex(Doctor, "cond_doctor", {})
        /\ patients_treated < total_patients /\ ~CanConsult /\ ~CanReceive
        /\ UNCHANGED <<waiting_patient_ids, meds, waiting_pharmacists, patients_treated,
                       done_flag, consulted>>
    BY <1>3 DEF DoctorSleeps, counters, flags
  <2>2. /\ Waiters("cond_not_full")' \subseteq Waiters("cond_not_full")
        /\ Waiters("cond_pharmacist_queue")' \subseteq Waiters("cond_pharmacist_queue")
    BY <1>1, <2>1, WaitersMove
  <2>3. QED
    BY <1>1, <2>1, <2>2
       DEF NoLostWakeup, CanConsult, CanReceive, waiting_patients, total_patients
<1>4. CASE StartConsultation \/ FinishConsultation \/ StartDelivery \/ FinishDelivery
  <2>1. /\ done_flag' = done_flag
        /\ \E to \in {"loop", "consulting", "receiving"} : \E W : GivesMutex(Doctor, to, W)
    BY <1>4 DEF StartConsultation, FinishConsultation, StartDelivery, FinishDelivery, flags
  <2>2. PICK to \in {"loop", "consulting", "receiving"} : \E W : GivesMutex(Doctor, to, W)
    BY <2>1
  <2>3. PICK W : GivesMutex(Doctor, to, W)
    BY <2>2
  <2>4. /\ Waiters("cond_not_full")' \subseteq Waiters("cond_not_full")
        /\ Waiters("cond_pharmacist_queue")' \subseteq Waiters("cond_pharmacist_queue")
    BY <1>1, <2>3, WaitersMove
  <2>5. Doctor \notin Waiters("cond_doctor")'
    BY <1>1, <2>3 DEF Waiters, GivesMutex, PlacesOK
  <2>6. QED
    BY <2>1, <2>4, <2>5 DEF NoLostWakeup
<1>5. QED
  BY <1>2, <1>3, <1>4 DEF DoctorThread

\* A step of another thread gives the sleeping doctor nothing to do, or wakes him.
LEMMA OthersWakeup ==
    ASSUME PlacesOK, Patients \in Crowds, Patients' = Patients, NoLostWakeup,
           NEW t \in Threads \ {Doctor}, NEW to, NEW W, GivesMutex(t, to, W),
           to # "cond_doctor",
           done_flag => to \notin {"cond_not_full", "cond_pharmacist_queue"},
           UNCHANGED <<done_flag, patients_treated>>,
           Doctor \in Waiters("cond_doctor") /\ Doctor \notin W
               => ~CanConsult' /\ ~CanReceive'
    PROVE  NoLostWakeup'
<1>1. Waiters("cond_doctor")' \subseteq Waiters("cond_doctor") \ W
  BY WaitersMove
<1>2. done_flag => /\ Waiters("cond_not_full")' \subseteq Waiters("cond_not_full")
                   /\ Waiters("cond_pharmacist_queue")'
                        \subseteq Waiters("cond_pharmacist_queue")
  BY WaitersMove
<1>3. QED
  BY <1>1, <1>2 DEF NoLostWakeup, total_patients

LEMMA PatientWakeup ==
    ASSUME TypeOK, Patients \in Crowds, NoLostWakeup, NEW p \in Patients, Patient(p)
    PROVE  NoLostWakeup'
<1>1. /\ PlacesOK /\ Patients' = Patients /\ p \in Threads \ {Doctor}
      /\ GroupSize \in Nat \ {0}
  BY Places, PatientType, Kinds, HospitalAssumption DEF Threads
<1>2. CASE RoomFull(p)
  BY <1>2 DEF RoomFull, vars, counters, flags, NoLostWakeup, Waiters, Threads, Patients,
              CanConsult, CanReceive, waiting_patients, total_patients
<1>3. CASE SitDown(p)
  <2>1. /\ SeatFree /\ waiting_patient_ids' = Append(waiting_patient_ids, p)
        /\ UNCHANGED <<meds, waiting_pharmacists, patients_treated, done_flag>>
    BY <1>3 DEF SitDown, counters, flags
  <2>2. PICK W \in IF CompletesGroup THEN Wakes("cond_doctor") ELSE {{}} :
          GivesMutex(p, "cond_patient", W)
    BY <1>3 DEF SitDown
  <2>3. waiting_patients' = waiting_patients + 1 /\ waiting_patients \in 0 .. GroupSize - 1
    BY <1>1, <2>1 DEF TypeOK, SeatFree, waiting_patients
  <2>4. ASSUME Doctor \in Waiters("cond_doctor"), Doctor \notin W
        PROVE  ~CanConsult' /\ ~CanReceive'
    <3>1. ~CompletesGroup
      <4>1. SUFFICES ASSUME CompletesGroup PROVE FALSE
        OBVIOUS
      <4>2. W \subseteq {Doctor} /\ W # {}
        BY <1>1, <2>2, <2>4, <4>1, WakesWaiters, DoctorWaits
      <4>3. QED
        BY <2>4, <4>2
    <3>2. QED
      BY <1>1, <2>1, <2>3, <2>4, <3>1
         DEF CompletesGroup, CanConsult, CanReceive, NoLostWakeup
  <2>5. QED
    BY <1>1, <2>1, <2>2, <2>4, OthersWakeup
<1>4. CASE LeaveHospital(p)
  <2>1. /\ GivesMutex(p, "ended", {})
        /\ UNCHANGED <<waiting_patient_ids, meds, waiting_pharmacists, patients_treated,
                       done_flag>>
    BY <1>4 DEF LeaveHospital, counters, flags
  <2>2. Doctor \in Waiters("cond_doctor") => ~CanConsult' /\ ~CanReceive'
    BY <2>1 DEF NoLostWakeup, CanConsult, CanReceive, waiting_patients
  <2>3. QED
    BY <1>1, <2>1, <2>2, OthersWakeup
<1>5. QED
  BY <1>2, <1>3, <1>4 DEF Patient

LEMMA PharmacistWakeup ==
    ASSUME TypeOK, Patients \in Crowds, PharmacistsCounted, NoLostWakeup,
           NEW f \in Pharmacists, Pharmacist(f)
    PROVE  NoLostWakeup'
<1>1. PlacesOK /\ Patients' = Patients /\ f \in Threads \ {Doctor}
  BY Places, PharmacistType, Kinds DEF Threads
<1>2. UNCHANGED <<waiting_patient_ids, meds, patients_treated, done_flag>>
  BY DEF Pharmacist, WaitForRoom, GoAway, OfferMeds, QueueWakes, DoneWakes, counters, flags
<1>3. ASSUME waiting_pharmacists' = waiting_pharmacists
               \/ waiting_pharmacists' = waiting_pharmacists - 1,
             Doctor \in Waiters("cond_doctor")
      PROVE  ~CanConsult' /\ ~CanReceive'
  BY <1>2, <1>3 DEF TypeOK, NoLostWakeup, CanConsult, CanReceive, waiting_patients
<1>4. CASE WaitForRoom(f) \/ GoAway(f) \/ DoneWakes(f)
  <2>1. /\ waiting_pharmacists' = waiting_pharmacists
        /\ \E to \in {"ended", "cond_not_full", "cond_pharmacist_done"} :
             /\ GivesMutex(f, to, {})
             /\ done_flag => to # "cond_not_full"
    BY <1>4 DEF WaitForRoom, GoAway, DoneWakes, counters
  <2>2. QED
    BY <1>1, <1>2, <1>3, <2>1, OthersWakeup
<1>5. CASE OfferMeds(f)
  <2>1. PICK W \in Wakes("cond_doctor") :
          HandOver(f, W) \/ GivesMutex(f, "cond_pharmacist_queue", W)
    BY <1>5 DEF OfferMeds, OfferWakes
  <2>2. PICK to \in {"ended", "cond_pharmacist_done", "cond_pharmacist_queue"} :
          GivesMutex(f, to, W)
    BY <2>1 DEF HandOver
  <2>3. ~done_flag
    BY <1>5 DEF OfferMeds
  <2>4. Doctor \in Waiters("cond_doctor") => Doctor \in W
    BY <1>1, WakesWaiters, DoctorWaits
  <2>5. QED
    BY <1>1, <1>2, <2>2, <2>3, <2>4, OthersWakeup
<1>6. CASE QueueWakes(f)
  <2>1. /\ \/ waiting_pharmacists' = waiting_pharmacists
           \/ waiting_pharmacists' = waiting_pharmacists - 1
        /\ \E to \in {"ended", "cond_pharmacist_queue", "cond_pharmacist_done"} :
             /\ GivesMutex(f, to, {})
             /\ done_flag => to = "ended"
    BY <1>6 DEF QueueWakes, HandOver
  <2>2. QED
    BY <1>1, <1>2, <1>3, <2>1, OthersWakeup
<1>7. QED
  BY <1>4, <1>5, <1>6 DEF Pharmacist

LEMMA StepWakeup ==
    ASSUME TypeOK, Patients \in Crowds, PharmacistsCounted, NoLostWakeup, [SpuriousNext]_vars
    PROVE  NoLostWakeup'
<1>1. CASE (\E t \in Threads : SpuriousWakeup(t)) \/ UNCHANGED vars
  <2>1. /\ UNCHANGED <<waiting_patient_ids, meds, waiting_pharmacists, patients_treated,
                       done_flag, pc, consulted>>
        /\ woken \subseteq woken'
    BY <1>1 DEF SpuriousWakeup, vars, counters, flags
  <2>2. \A c : Waiters(c)' \subseteq Waiters(c)
    BY <2>1 DEF Waiters, Threads, Patients
  <2>3. QED
    BY <2>1, <2>2
       DEF NoLostWakeup, CanConsult, CanReceive, waiting_patients, total_patients, Patients
<1>2. QED
  BY <1>1, DoctorWakeup, PatientWakeup, PharmacistWakeup DEF SpuriousNext, Next

-----------------------------------------------------------------------------
(* The patients who wait. *)

OnList(p) == \E i \in 1 .. waiting_patients : waiting_patient_ids[i] = p

\* Nobody takes a patient off the list or the doctor from his consultation, and
\* nobody starts to wait on cond_patient.
LEMMA ForgottenQuiet ==
    ASSUME PlacesOK, Patients' = Patients, NobodyForgotten,
           NEW t \in Threads, NEW to, NEW W, GivesMutex(t, to, W), to # "cond_patient",
           t = Doctor => pc[Doctor] # "consulting",
           UNCHANGED <<waiting_patient_ids, consulted>>
    PROVE  NobodyForgotten'
<1>1. Waiters("cond_patient")' \subseteq Waiters("cond_patient")
  BY WaitersMove
<1>2. pc[Doctor] = "consulting" => pc'[Doctor] = "consulting"
  BY DEF GivesMutex, PlacesOK, Threads
<1>3. QED
  BY <1>1, <1>2 DEF NobodyForgotten, waiting_patients

LEMMA StepForgotten ==
    ASSUME TypeOK, Patients \in Crowds, PharmacistsCounted, NobodyForgotten,
           [SpuriousNext]_vars
    PROVE  NobodyForgotten'
<1>1. /\ PlacesOK /\ Patients' = Patients /\ Doctor \in Threads
      /\ Patients \subseteq Threads /\ Pharmacists \subseteq Threads
      /\ Doctor \notin Patients /\ Doctor \notin Pharmacists
  BY Places, StepType, Kinds DEF Threads
<1>2. CASE DoctorEnds \/ DoctorSleeps \/ StartDelivery \/ FinishDelivery
  <2>1. /\ pc[Doctor] # "consulting" /\ UNCHANGED <<waiting_patient_ids, consulted>>
        /\ \E to, W : to # "cond_patient" /\ GivesMutex(Doctor, to, W)
    BY <1>2 DEF DoctorEnds, DoctorSleeps, StartDelivery, FinishDelivery, DoctorRuns, GetsMutex
  <2>2. QED
    BY <1>1, <2>1, ForgottenQuiet
<1>3. CASE StartConsultation
  <2>1. /\ pc[Doctor] # "consulting" /\ waiting_patients = GroupSize
        /\ GroupSize \in Nat \ {0}
    BY <1>3, HospitalAssumption
       DEF StartConsultation, DoctorRuns, GetsMutex, CanConsult, TypeOK, waiting_patients
  <2>2. PICK W : GivesMutex(Doctor, "consulting", W)
    BY <1>3 DEF StartConsultation
  <2>3. Waiters("cond_patient")' \subseteq Waiters("cond_patient") /\ pc'[Doctor] = "consulting"
    <3>1. Waiters("cond_patient")' \subseteq Waiters("cond_patient")
      BY <1>1, <2>2, WaitersMove
    <3>2. pc'[Doctor] = "consulting"
      BY <1>1, <2>2 DEF GivesMutex, PlacesOK
    <3>3. QED
      BY <3>1, <3>2
  <2>4. ASSUME NEW p \in Waiters("cond_patient") PROVE consulted'[p] > 0
    <3>1. PICK k \in 1 .. GroupSize : waiting_patient_ids[k] = p
      BY <2>1, <2>4 DEF NobodyForgotten
    <3>2. p \in Patients /\ consulted[p] \in Nat
      BY <2>1, <3>1 DEF TypeOK, waiting_patients
    <3> DEFINE at == {i \in 1 .. GroupSize : waiting_patient_ids[i] = p}
    <3>3. k \in at /\ IsFiniteSet(at)
      <4>1. IsFiniteSet(1 .. GroupSize)
        <5>1. 1 \in Int /\ GroupSize \in Int
          BY <2>1
        <5>2. QED
          BY <5>1, FS_Interval
      <4>2. at \subseteq 1 .. GroupSize /\ k \in at
        BY <3>1
      <4> HIDE DEF at
      <4>3. QED
        BY <4>1, <4>2, FS_Subset
    <3>4. consulted'[p] = consulted[p] + Cardinality(at)
      BY <1>3, <3>2 DEF StartConsultation
    <3> HIDE DEF at
    <3>5. Cardinality(at) \in Nat /\ Cardinality(at) # 0
      BY <3>3, FS_CardinalityType, FS_EmptySet
    <3>6. QED
      BY <3>2, <3>4, <3>5
  <2>5. QED
    BY <2>3, <2>4 DEF NobodyForgotten
<1>4. CASE FinishConsultation
  <2>1. GivesMutex(Doctor, "loop", Waiters("cond_patient"))
    BY <1>4 DEF FinishConsultation
  <2>2. Waiters("cond_patient")' = {}
    BY <1>1, <2>1 DEF Waiters, GivesMutex, PlacesOK, Threads
  <2>3. QED
    BY <2>2 DEF NobodyForgotten
<1>5. ASSUME NEW p \in Patients, Patient(p) PROVE NobodyForgotten'
  <2>1. CASE RoomFull(p)
    BY <2>1 DEF RoomFull, vars, NobodyForgotten, Waiters, Threads, Patients, waiting_patients
  <2>2. CASE SitDown(p)
    <3>1. /\ waiting_patient_ids' = Append(waiting_patient_ids, p) /\ consulted' = consulted
          /\ waiting_patient_ids \in Seq(Patients)
      BY <2>2 DEF SitDown, TypeOK
    <3>2. PICK W : GivesMutex(p, "cond_patient", W)
      BY <2>2 DEF SitDown
    <3>3. Waiters("cond_patient")' \subseteq Waiters("cond_patient") \cup {p}
      BY <1>1, <3>2, WaitersMove
    <3>4. pc'[Doctor] = pc[Doctor]
      BY <1>1, <3>2 DEF GivesMutex, PlacesOK
    <3>5. \A q : OnList(q) \/ q = p => OnList(q)'
      <4>1. /\ waiting_patients \in Nat /\ waiting_patients' = waiting_patients + 1
            /\ \A i \in 1 .. waiting_patients :
                 waiting_patient_ids'[i] = waiting_patient_ids[i]
            /\ waiting_patient_ids'[waiting_patients + 1] = p
        BY <3>1 DEF waiting_patients
      <4>2. QED
        BY <4>1 DEF OnList
    <3>6. QED
      BY <3>1, <3>3, <3>4, <3>5 DEF NobodyForgotten, OnList
  <2>3. CASE LeaveHospital(p)
    <3>1. /\ UNCHANGED <<waiting_patient_ids, consulted>>
          /\ GivesMutex(p, "ended", {})
      BY <2>3 DEF LeaveHospital
    <3>2. QED
      BY <1>1, <3>1, ForgottenQuiet
  <2>4. QED
    BY <1>5, <2>1, <2>2, <2>3 DEF Patient
<1>6. ASSUME NEW f \in Pharmacists, Pharmacist(f) PROVE NobodyForgotten'
  <2>1. UNCHANGED <<waiting_patient_ids, consulted>>
    BY <1>6 DEF Pharmacist, WaitForRoom, GoAway, OfferMeds, QueueWakes, DoneWakes
  <2>2. \E to, W : to # "cond_patient" /\ GivesMutex(f, to, W)
    <3>1. \A W : HandOver(f, W) => \E to : to # "cond_patient" /\ GivesMutex(f, to, W)
      BY DEF HandOver
    <3>2. QED
      BY <1>6, <3>1 DEF Pharmacist, WaitForRoom, GoAway, OfferMeds, QueueWakes, DoneWakes
  <2>3. QED
    BY <1>1, <2>1, <2>2, ForgottenQuiet
<1>7. CASE (\E t \in Threads : SpuriousWakeup(t)) \/ UNCHANGED vars
  <2>1. UNCHANGED <<waiting_patient_ids, pc, consulted>> /\ woken \subseteq woken'
    BY <1>7 DEF SpuriousWakeup, vars
  <2>2. QED
    BY <2>1 DEF NobodyForgotten, Waiters, Threads, Patients, waiting_patients
<1>8. QED
  BY <1>2, <1>3, <1>4, <1>5, <1>6, <1>7 DEF SpuriousNext, Next, DoctorThread

-----------------------------------------------------------------------------
(* The invariant. *)

LEMMA InitHospital == Init => HospitalInv
<1> SUFFICES ASSUME Init PROVE HospitalInv
  OBVIOUS
<1>1. PICK c \in Crowds : consulted = [p \in c |-> 0]
  BY DEF Init
<1>2. Patients = c /\ Patients \in Crowds /\ \A p \in Patients : consulted[p] = 0
  BY <1>1 DEF Patients
<1>3. /\ Patients \cap Pharmacists = {} /\ Doctor \notin Patients /\ Doctor \notin Pharmacists
      /\ GroupSize \in Nat \ {0} /\ APTEKA_CAPACITY \in Nat
  BY <1>2, Kinds, HospitalAssumption
<1>4. waiting_patient_ids \in Seq(Patients) /\ waiting_patients = 0
  BY EmptySeq DEF Init, waiting_patients
<1>5. \A t \in Threads : pc[t] = IF t = Doctor THEN "loop" ELSE "travel"
  BY DEF Init
<1>6. PlacesOK
  BY <1>3, <1>5 DEF Init, PlacesOK, Threads, DoctorPC, PatientPC, PharmacistPC
<1>7. DataOK
  <2>1. waiting_patients <= GroupSize /\ meds \in 0 .. APTEKA_CAPACITY
    <3>1. 0 <= GroupSize /\ APTEKA_CAPACITY \in 0 .. APTEKA_CAPACITY
      BY <1>3
    <3>2. QED
      BY <1>4, <3>1 DEF Init
  <2>2. consulted \in [Patients -> Nat]
    BY <1>1, <1>2
  <2>3. QED
    BY <1>4, <2>1, <2>2 DEF Init, DataOK
<1>8. SeatedOK
  <2>1. {p \in Patients : consulted[p] > 0} = {}
    BY <1>2
  <2>2. QED
    BY <1>2, <1>4, <2>1, FS_EmptySet DEF Init, SeatedOK, ConsultedOnce
<1>9. PharmacistsCounted
  <2>1. {f \in Pharmacists : pc[f] = "cond_pharmacist_queue"} = {}
    BY <1>3, <1>5 DEF Threads
  <2>2. QED
    BY <2>1, FS_EmptySet DEF Init, PharmacistsCounted
<1>10. NoLostWakeup /\ NobodyForgotten
  BY <1>5 DEF Init, NoLostWakeup, NobodyForgotten, Waiters
<1>11. QED
  BY <1>6, <1>7, <1>8, <1>9, <1>10, TypeParts DEF HospitalInv

LEMMA HospitalInvariant == SpuriousSpec => []HospitalInv
<1>1. HospitalInv /\ [SpuriousNext]_vars => HospitalInv'
  <2> SUFFICES ASSUME HospitalInv, [SpuriousNext]_vars PROVE HospitalInv'
    OBVIOUS
  <2>1. Patients \in Crowds
    BY DEF HospitalInv, SeatedOK
  <2>2. QED
    BY <2>1, StepType, StepCounted, StepSeated, StepWakeup, StepForgotten DEF HospitalInv
<1>2. QED
  BY InitHospital, <1>1, PTL DEF SpuriousSpec

-----------------------------------------------------------------------------
(* Theorems. *)

\* The seats, the kit and every counter stay in their bounds, and the pharmacists in
\* the queue are counted until the hospital closes.
THEOREM HospitalCountersOK == SpuriousSpec => []CountersOK
<1>1. HospitalInv => CountersOK
  BY DEF HospitalInv, CountersOK
<1>2. QED
  BY <1>1, HospitalInvariant, PTL

\* No wake-up is lost: the doctor does not sleep while there is something to do, and
\* nobody sleeps in the queue or before the full kit after he has gone.
THEOREM HospitalNoLostWakeup == SpuriousSpec => []NoLostWakeup
<1>1. HospitalInv => NoLostWakeup
  BY DEF HospitalInv
<1>2. QED
  BY <1>1, HospitalInvariant, PTL

\* A patient who waits is on the doctor's list or in the group being consulted.
THEOREM HospitalNobodyForgotten == SpuriousSpec => []NobodyForgotten
<1>1. HospitalInv => NobodyForgotten
  BY DEF HospitalInv
<1>2. QED
  BY <1>1, HospitalInvariant, PTL

\* patients_treated is the number of patients announced as consulted, each once.
THEOREM HospitalConsultedOnce == SpuriousSpec => []ConsultedOnce
<1>1. HospitalInv => ConsultedOnce
  BY DEF HospitalInv, SeatedOK
<1>2. QED
  BY <1>1, HospitalInvariant, PTL

\* All of it without wakes that nobody signalled.
COROLLARY HospitalSafe ==
    Spec => [](CountersOK /\ NoLostWakeup /\ NobodyForgotten /\ ConsultedOnce)
BY SpecIsSpurious, HospitalCountersOK, HospitalNoLostWakeup, HospitalNobodyForgotten,
   HospitalConsultedOnce, PTL
=============================================================================
