-------------------------- MODULE BuildSlotsProofs --------------------------
(***************************************************************************)
(* Proofs about BuildSlots, for every set of images, every value of the    *)
(* concurrency flag and every number of faults.                            *)
(***************************************************************************)
EXTENDS BuildSlots, FiniteSetTheorems, SequenceTheorems, TLAPS

(* The slots are a finite interval.                                        *)
LEMMA SlotsFacts ==
  /\ maxConcurrentBuilds \in Nat
  /\ Slots \subseteq Nat
  /\ IsFiniteSet(Slots)
  /\ Cardinality(Slots) = maxConcurrentBuilds
<1>1. maxConcurrentBuilds \in Nat
  BY FlagAssumption DEF maxConcurrentBuilds
<1>2. Slots \subseteq Nat
  BY <1>1 DEF Slots
<1>3. IsFiniteSet(Slots) /\ Cardinality(Slots) = maxConcurrentBuilds
  <2>1. /\ IsFiniteSet(0 .. maxConcurrentBuilds - 1)
        /\ Cardinality(0 .. maxConcurrentBuilds - 1)
             = IF 0 > maxConcurrentBuilds - 1 THEN 0
               ELSE maxConcurrentBuilds - 1 - 0 + 1
    BY <1>1, FS_Interval
  <2> QED BY <1>1, <2>1 DEF Slots
<1> QED BY <1>1, <1>2, <1>3

(* A fresh Lease of an image is a Lease.                                   *)
LEMMA FreshLeaseType ==
  ASSUME NEW i \in Images
  PROVE  FreshLease(i) \in Lease
BY DEF FreshLease, Lease

(* It is held by the image, and it is fresh.                               *)
LEMMA FreshLeaseFacts ==
  ASSUME NEW i \in Images
  PROVE  /\ FreshLease(i) # NoLease
         /\ FreshLease(i).holder = i
         /\ FreshLease(i).fresh
<1>1. FreshLease(i) # NoLease
  BY FreshLeaseType, LeaseAssumption
<1>2. FreshLease(i).holder = i /\ FreshLease(i).fresh
  BY DEF FreshLease
<1> QED BY <1>1, <1>2

(* The first and the last version of a Lease are versions of it.           *)
LEMMA LeaseTypes ==
  ASSUME TypeOK, NEW s \in Slots
  PROVE  /\ versions[s] \in Seq(Lease \cup {NoLease})
         /\ Len(versions[s]) \in Nat /\ Len(versions[s]) >= 1
         /\ lease(s) \in Lease \cup {NoLease}
         /\ Seen(s) \in Lease \cup {NoLease}
<1>1. versions[s] \in Seq(Lease \cup {NoLease}) /\ versions[s] # <<>>
  BY DEF TypeOK
<1>2. Len(versions[s]) \in Nat /\ Len(versions[s]) # 0
  BY <1>1
<1> QED BY <1>1, <1>2 DEF lease, Seen

(* The tail of a sequence of several elements ends as the sequence does.   *)
LEMMA TailFacts ==
  ASSUME NEW S, NEW q \in Seq(S), q # <<>>, Len(q) # 1
  PROVE  Tail(q) \in Seq(S) \ {<<>>} /\ Tail(q)[Len(Tail(q))] = q[Len(q)]
<1>1. /\ Tail(q) \in Seq(S)
      /\ Len(Tail(q)) = Len(q) - 1
      /\ \A k \in 1 .. Len(Tail(q)) : Tail(q)[k] = q[k + 1]
  BY HeadTailProperties
<1>2. Len(q) \in Nat /\ Len(q) # 0
  BY EmptySeq
<1>3. Len(Tail(q)) \in 1 .. Len(Tail(q)) /\ Len(Tail(q)) + 1 = Len(q)
  BY <1>1, <1>2
<1>4. Tail(q) # <<>>
  <2>1. Len(<<>>) = 0
    BY EmptySeq
  <2>2. Len(Tail(q)) # 0
    BY <1>1, <1>2
  <2> QED BY <2>1, <2>2
<1> QED BY <1>1, <1>3, <1>4

(* What a write does to the versions of a Lease: the API server's is the   *)
(* one written, and the cache keeps what it had.                           *)
LEMMA WriteFacts ==
  ASSUME TypeOK, NEW ss, NEW l \in Lease \cup {NoLease}, Write(ss, l)
  PROVE  /\ versions' \in [Slots -> Seq(Lease \cup {NoLease}) \ {<<>>}]
         /\ \A s \in Slots : s \in ss => lease(s)' = l
         /\ \A s \in Slots : s \notin ss => versions'[s] = versions[s]
         /\ \A s \in Slots : lease(s)' # lease(s) =>
              s \in ss /\ versions'[s] = Append(versions[s], l)
<1>1. ASSUME NEW s \in Slots
      PROVE  /\ versions'[s] \in Seq(Lease \cup {NoLease}) \ {<<>>}
             /\ s \in ss => lease(s)' = l
             /\ s \notin ss => versions'[s] = versions[s]
             /\ lease(s)' # lease(s) =>
                  s \in ss /\ versions'[s] = Append(versions[s], l)
  <2>1. versions[s] \in Seq(Lease \cup {NoLease}) \ {<<>>}
    BY DEF TypeOK
  <2>2. CASE s \in ss /\ ~(l = NoLease /\ lease(s) = NoLease)
    <3>1. versions'[s] = Append(versions[s], l)
      BY <2>2 DEF Write
    <3>2. /\ versions'[s] \in Seq(Lease \cup {NoLease})
          /\ Len(versions'[s]) = Len(versions[s]) + 1
          /\ versions'[s][Len(versions'[s])] = l
      BY <2>1, <3>1
    <3>3. versions'[s] # <<>>
      BY <2>1, <3>2
    <3> QED BY <2>2, <3>1, <3>2, <3>3 DEF lease
  <2>3. CASE ~(s \in ss /\ ~(l = NoLease /\ lease(s) = NoLease))
    <3>1. versions'[s] = versions[s]
      BY <2>3 DEF Write
    <3> QED BY <2>1, <2>3, <3>1 DEF lease
  <2> QED BY <2>2, <2>3
<1>2. versions' = [s \in Slots |-> versions'[s]]
  BY DEF Write
<1> QED BY <1>1, <1>2

(* The watch delivers a version and leaves the API server's.               *)
LEMMA SyncFacts ==
  ASSUME TypeOK, NEW s \in Slots, CacheSync(s)
  PROVE  /\ versions' \in [Slots -> Seq(Lease \cup {NoLease}) \ {<<>>}]
         /\ \A t \in Slots : lease(t)' = lease(t)
         /\ \A t \in Slots : t # s => versions'[t] = versions[t]
         /\ versions'[s] = Tail(versions[s])
<1>1. versions[s] \in Seq(Lease \cup {NoLease}) /\ versions[s] # <<>>
  BY DEF TypeOK
<1>2. Len(versions[s]) # 1
  BY DEF CacheSync, Current
<1>3. /\ versions'[s] = Tail(versions[s])
      /\ \A t \in Slots : t # s => versions'[t] = versions[t]
      /\ versions' = [versions EXCEPT ![s] = Tail(versions[s])]
  BY DEF CacheSync, TypeOK
<1>4. /\ Tail(versions[s]) \in Seq(Lease \cup {NoLease}) \ {<<>>}
      /\ Tail(versions[s])[Len(Tail(versions[s]))]
           = versions[s][Len(versions[s])]
  BY <1>1, <1>2, TailFacts
<1>5. lease(s)' = lease(s)
  BY <1>3, <1>4 DEF lease
<1> QED BY <1>3, <1>4, <1>5 DEF lease, TypeOK

(* An expired Lease keeps its holder.                                      *)
LEMMA ExpireFacts ==
  ASSUME TypeOK, NEW s \in Slots, Expire(s)
  PROVE  /\ versions' \in [Slots -> Seq(Lease \cup {NoLease}) \ {<<>>}]
         /\ \A t \in Slots : t # s => versions'[t] = versions[t]
         /\ lease(s) \in Lease
         /\ lease(s)' \in Lease /\ lease(s)'.holder = lease(s).holder
<1>1. lease(s) \in Lease /\ lease(s) = versions[s][1]
  BY LeaseTypes DEF Expire, Current, lease
<1>2. Aged(lease(s)) \in Lease /\ Aged(lease(s)).holder = lease(s).holder
  BY <1>1 DEF Aged, Lease
<1>3. versions' = [versions EXCEPT ![s] = <<Aged(lease(s))>>]
  BY <1>1 DEF Expire
<1>4. versions'[s] = <<Aged(lease(s))>> /\ lease(s)' = Aged(lease(s))
  <2>1. versions'[s] = <<Aged(lease(s))>>
    BY <1>3 DEF TypeOK
  <2> QED BY <2>1, <1>2 DEF lease
<1>5. <<Aged(lease(s))>> \in Seq(Lease \cup {NoLease}) \ {<<>>}
  BY <1>2
<1> QED BY <1>1, <1>2, <1>3, <1>4, <1>5 DEF TypeOK

(* The slot whose expired Lease was deleted is a slot of the limit.        *)
RecreateSlot == \A i \in Images : pc[i] = "recreate" => slot[i] \in Slots

(* The types of the Leases, and of the rest.                               *)
LeaseType == versions \in [Slots -> Seq(Lease \cup {NoLease}) \ {<<>>}]

OtherTypes ==
  /\ phase \in [Images -> Phases]
  /\ refs \in [Images -> SUBSET Slots]
  /\ deleting \in [Images -> BOOLEAN]
  /\ job \in [Images -> JobStates]
  /\ timedOut \in [Images -> BOOLEAN]
  /\ claim \in [Images -> {"sound", "misread", "lapsed"}]
  /\ pc \in [Images -> Steps]
  /\ slot \in [Images -> Nat]
  /\ mem \in [Images -> SUBSET Slots]
  /\ goal \in [Images -> Phases]
  /\ faults \in Nat

LEMMA TypeParts == TypeOK <=> LeaseType /\ OtherTypes
BY DEF TypeOK, LeaseType, OtherTypes

(* Every step of the scheduler keeps the types and the recreated slot.     *)
LEMMA TypeStep ==
  TypeOK /\ RecreateSlot /\ [Next]_vars => TypeOK' /\ RecreateSlot'
<1> SUFFICES ASSUME TypeOK, RecreateSlot, [Next]_vars
             PROVE  TypeOK' /\ RecreateSlot'
  OBVIOUS
<1>0. /\ LeaseType /\ OtherTypes
      /\ \A ss : Write(ss, NoLease) => LeaseType'
      /\ \A ss : \A i \in Images : Write(ss, FreshLease(i)) => LeaseType'
      /\ versions' = versions => LeaseType'
      /\ \A i \in Images : claim' = [claim EXCEPT ![i] = "misread"]
           => claim' \in [Images -> {"sound", "misread", "lapsed"}]
  BY WriteFacts, FreshLeaseType, TypeParts DEF LeaseType, OtherTypes
<1>t. ASSUME LeaseType', OtherTypes' PROVE TypeOK'
  BY <1>t, TypeParts, PTL
<1> USE SlotsFacts DEF RecreateSlot, Phases, JobStates, Steps, OtherTypes,
        statusVars, envVars, opVars, Goto
<1>1. CASE UNCHANGED vars
  BY <1>0, <1>t, <1>1 DEF vars
<1>c. ASSUME NEW i \in Images, NEW s \in Slots, CreateLease(i, s),
             UNCHANGED <<statusVars, envVars, faults>>
      PROVE  TypeOK' /\ RecreateSlot'
  BY <1>c, <1>0, <1>t DEF CreateLease, Take, NextSlot, Claims
<1>2. ASSUME NEW i \in Images, RejectPending(i)
      PROVE  TypeOK' /\ RecreateSlot'
  BY <1>0, <1>t, <1>2 DEF RejectPending
<1>3. ASSUME NEW i \in Images, StartPending(i)
      PROVE  TypeOK' /\ RecreateSlot'
  BY <1>0, <1>t, <1>3 DEF StartPending
<1>4. ASSUME NEW i \in Images, AcquireFree(i)
      PROVE  TypeOK' /\ RecreateSlot'
  BY <1>c, <1>4 DEF AcquireFree, Acquiring
<1>5. ASSUME NEW i \in Images, AcquireOwn(i)
      PROVE  TypeOK' /\ RecreateSlot'
  BY <1>0, <1>t, <1>5 DEF AcquireOwn, Acquiring, Take, Claims
<1>6. ASSUME NEW i \in Images, AcquireExpired(i)
      PROVE  TypeOK' /\ RecreateSlot'
  BY <1>0, <1>t, <1>6 DEF AcquireExpired, Acquiring
<1>7. ASSUME NEW i \in Images, RecreateExpired(i)
      PROVE  TypeOK' /\ RecreateSlot'
  BY <1>c, <1>7 DEF RecreateExpired
<1>8. ASSUME NEW i \in Images, SkipHeld(i)
      PROVE  TypeOK' /\ RecreateSlot'
  BY <1>0, <1>t, <1>8 DEF SkipHeld, NextSlot
<1>9. ASSUME NEW i \in Images, QueueBuild(i)
      PROVE  TypeOK' /\ RecreateSlot'
  BY <1>0, <1>t, <1>9 DEF QueueBuild
<1>10. ASSUME NEW i \in Images, AssembleFails(i)
      PROVE  TypeOK' /\ RecreateSlot'
  BY <1>0, <1>t, <1>10 DEF AssembleFails
<1>11. ASSUME NEW i \in Images, CreateJob(i)
      PROVE  TypeOK' /\ RecreateSlot'
  BY <1>0, <1>t, <1>11 DEF CreateJob
<1>12. ASSUME NEW i \in Images, CreateJobFails(i)
      PROVE  TypeOK' /\ RecreateSlot'
  BY <1>0, <1>t, <1>12 DEF CreateJobFails
<1>13. ASSUME NEW i \in Images, MarkBuilding(i)
      PROVE  TypeOK' /\ RecreateSlot'
  BY <1>0, <1>t, <1>13 DEF MarkBuilding
<1>14. ASSUME NEW i \in Images, ObserveFinished(i)
      PROVE  TypeOK' /\ RecreateSlot'
  BY <1>0, <1>t, <1>14 DEF ObserveFinished, Outcomes, BeginRelease
<1>15. ASSUME NEW i \in Images, RenewSlots(i)
      PROVE  TypeOK' /\ RecreateSlot'
  BY <1>0, <1>t, <1>15 DEF RenewSlots, BeginRelease, Claims
<1>16. ASSUME NEW i \in Images, ReleaseSlots(i)
      PROVE  TypeOK' /\ RecreateSlot'
  BY <1>0, <1>t, <1>16 DEF ReleaseSlots
<1>17. ASSUME NEW i \in Images, WriteStatus(i)
      PROVE  TypeOK' /\ RecreateSlot'
  BY <1>0, <1>t, <1>17 DEF WriteStatus
<1>18. ASSUME NEW i \in Images, StartDelete(i)
      PROVE  TypeOK' /\ RecreateSlot'
  BY <1>0, <1>t, <1>18 DEF StartDelete, BeginRelease
<1>19. ASSUME NEW i \in Images, Fault(i)
      PROVE  TypeOK' /\ RecreateSlot'
  BY <1>0, <1>t, <1>19 DEF Fault, Abort
<1>20. ASSUME NEW i \in Images, StatusConflict(i)
      PROVE  TypeOK' /\ RecreateSlot'
  BY <1>0, <1>t, <1>20 DEF StatusConflict, Abort
<1>21. ASSUME NEW i \in Images, Environment(i)
       PROVE  TypeOK' /\ RecreateSlot'
  BY <1>0, <1>t, <1>21 DEF Environment, RequestDelete, JobFinishes, JobRemoved,
               BuildTimesOut
<1>22. ASSUME NEW s \in Slots, Expire(s)
       PROVE  TypeOK' /\ RecreateSlot'
  BY <1>22, ExpireFacts DEF Expire, TypeOK, Lease
<1>23. ASSUME NEW s \in Slots, CacheSync(s)
       PROVE  TypeOK' /\ RecreateSlot'
  BY <1>0, <1>t, <1>23, SyncFacts DEF CacheSync, LeaseType
<1> QED
  BY <1>1, <1>2, <1>3, <1>4, <1>5, <1>6, <1>7, <1>8, <1>9, <1>10, <1>11, <1>12, <1>13, <1>14, <1>15, <1>16, <1>17, <1>18, <1>19, <1>20, <1>21, <1>22, <1>23
     DEF Next, Reconcile, Start, Advance

(* Every variable keeps its type: the refs a reconcile carries and those   *)
(* the status records are slots within the limit, for every limit.         *)
THEOREM TypeCorrect == Spec => []TypeOK
<1>1. Init => TypeOK /\ RecreateSlot
  BY SlotsFacts DEF Init, TypeOK, RecreateSlot, Phases, JobStates, Steps
<1> QED BY <1>1, TypeStep, PTL DEF Spec

-----------------------------------------------------------------------------
(* The inductive invariant behind the limit on parallel builds             *)

OneWorker ==
  \A i, j \in Images : pc[i] # "idle" /\ pc[j] # "idle" => i = j

EarlySteps == {"acquire", "recreate", "createJob", "markBuilding"}

EarlyPending == \A i \in Images : pc[i] \in EarlySteps => phase[i] = "Pending"

PendingUnrecorded == \A i \in Images : phase[i] = "Pending" => refs[i] = {}

(* What the cache may have of the Lease of an image with a sound claim: a  *)
(* copy from before it existed, or one as good as new.                     *)
SoundLease ==
  \A s \in Slots : lease(s) # NoLease /\ claim[lease(s).holder] = "sound" =>
    LET F == FreshLease(lease(s).holder)
    IN  versions[s] \in {<<NoLease, F>>, <<F>>, <<F, F>>}

(* A reconcile that is about to create or has created the Job carries the  *)
(* slot it acquired, and still holds it.                                   *)
Carries(i) == maxConcurrentBuilds = 0 \/ \E s \in mem[i] : HeldBy(lease(s), i)

CarriesSlot ==
  \A i \in Images :
    pc[i] \in {"createJob", "markBuilding"} /\ claim[i] = "sound" => Carries(i)

(* Slots are only released for builds that are over.                       *)
ReleaseDue ==
  \A i \in Images : pc[i] \in {"release", "writeStatus"} =>
    phase[i] # "Building" \/ job[i] # "active" \/ timedOut[i] \/ deleting[i]

GoalFinal == \A i \in Images : goal[i] # "Building"

(* The parts that are not about Leases.                                    *)
Reconciling ==
  OneWorker /\ EarlyPending /\ PendingUnrecorded /\ ReleaseDue /\ GoalFinal

SlotRest == Reconciling /\ SoundLease /\ CarriesSlot /\ BuildingHoldsSlot

SlotInv == TypeOK /\ RecreateSlot /\ SlotRest

(* One reconcile at a time, and it does what the phase calls for.          *)
LEMMA ReconcilingStep ==
  ASSUME OtherTypes, Reconciling, [Next]_vars
  PROVE  Reconciling'
<1> USE DEF OtherTypes, Reconciling, OneWorker, EarlyPending, EarlySteps,
        PendingUnrecorded, ReleaseDue, GoalFinal, statusVars, envVars,
        opVars, Goto, Phases
<1>1. CASE UNCHANGED vars
  BY <1>1 DEF vars
<1>2. ASSUME NEW i \in Images, RejectPending(i) PROVE Reconciling'
  BY <1>2 DEF RejectPending, Begin, WorkerFree
<1>3. ASSUME NEW i \in Images, StartPending(i) PROVE Reconciling'
  BY <1>3 DEF StartPending, Begin, WorkerFree
<1>4. ASSUME NEW i \in Images, AcquireFree(i) PROVE Reconciling'
  BY <1>4 DEF AcquireFree, Acquiring, CreateLease, Take, NextSlot
<1>5. ASSUME NEW i \in Images, AcquireOwn(i) PROVE Reconciling'
  BY <1>5 DEF AcquireOwn, Acquiring, Take
<1>6. ASSUME NEW i \in Images, AcquireExpired(i) PROVE Reconciling'
  BY <1>6 DEF AcquireExpired, Acquiring
<1>7. ASSUME NEW i \in Images, RecreateExpired(i) PROVE Reconciling'
  BY <1>7 DEF RecreateExpired, CreateLease, Take, NextSlot
<1>8. ASSUME NEW i \in Images, SkipHeld(i) PROVE Reconciling'
  BY <1>8 DEF SkipHeld, Acquiring, NextSlot
<1>9. ASSUME NEW i \in Images, QueueBuild(i) PROVE Reconciling'
  BY <1>9 DEF QueueBuild
<1>10. ASSUME NEW i \in Images, AssembleFails(i) PROVE Reconciling'
  BY <1>10 DEF AssembleFails
<1>11. ASSUME NEW i \in Images, CreateJob(i) PROVE Reconciling'
  BY <1>11 DEF CreateJob
<1>12. ASSUME NEW i \in Images, CreateJobFails(i) PROVE Reconciling'
  BY <1>12 DEF CreateJobFails
<1>13. ASSUME NEW i \in Images, MarkBuilding(i) PROVE Reconciling'
  BY <1>13 DEF MarkBuilding
<1>14. ASSUME NEW i \in Images, ObserveFinished(i) PROVE Reconciling'
  BY <1>14 DEF ObserveFinished, Outcomes, BeginRelease, Begin, WorkerFree
<1>15. ASSUME NEW i \in Images, RenewSlots(i) PROVE Reconciling'
  BY <1>15 DEF RenewSlots, Begin, WorkerFree, BeginRelease
<1>16. ASSUME NEW i \in Images, ReleaseSlots(i) PROVE Reconciling'
  BY <1>16 DEF ReleaseSlots
<1>17. ASSUME NEW i \in Images, WriteStatus(i) PROVE Reconciling'
  BY <1>17 DEF WriteStatus
<1>18. ASSUME NEW i \in Images, StartDelete(i) PROVE Reconciling'
  BY <1>18 DEF StartDelete, BeginRelease, WorkerFree
<1>19. ASSUME NEW i \in Images, Fault(i) PROVE Reconciling'
  BY <1>19 DEF Fault, Abort
<1>20. ASSUME NEW i \in Images, Environment(i) PROVE Reconciling'
  BY <1>20 DEF Environment, RequestDelete, JobFinishes, JobRemoved,
               BuildTimesOut
<1>21. ASSUME NEW s \in Slots, Expire(s) PROVE Reconciling'
  BY <1>21 DEF Expire
<1>22. ASSUME NEW s \in Slots, CacheSync(s) PROVE Reconciling'
  BY <1>22 DEF CacheSync
<1>23. ASSUME NEW i \in Images, StatusConflict(i) PROVE Reconciling'
  BY <1>23 DEF StatusConflict, Abort
<1> QED
  BY <1>1, <1>2, <1>3, <1>4, <1>5, <1>6, <1>7, <1>8, <1>9, <1>10, <1>11,
     <1>12, <1>13, <1>14, <1>15, <1>16, <1>17, <1>18, <1>19, <1>20, <1>21,
     <1>22, <1>23 DEF Next, Reconcile, Start, Advance

(* The steps that change a Lease or a claim, or bring one to the cache.    *)
LEMMA LeaseSteps ==
  ASSUME [Next]_vars
  PROVE  \/ UNCHANGED <<versions, claim>>
         \/ \E i \in Images :
              \/ RejectPending(i) \/ AcquireExpired(i) \/ RenewSlots(i)
              \/ CreateJobFails(i) \/ ReleaseSlots(i) \/ AcquireOwn(i)
              \/ AcquireFree(i) \/ RecreateExpired(i)
         \/ \E t \in Slots : Expire(t) \/ CacheSync(t)
BY DEF vars, Next, Reconcile, Start, Advance, StartPending,
   ObserveFinished, StartDelete, SkipHeld, NextSlot, QueueBuild,
   AssembleFails, CreateJob, MarkBuilding, WriteStatus, Fault, Abort,
   StatusConflict, Environment, RequestDelete, JobFinishes, JobRemoved,
   BuildTimesOut

(* What a Get returns of the Lease of an image with a sound claim.         *)
LEMMA SoundSeen ==
  ASSUME TypeOK, SoundLease, NEW s \in Slots, NEW j \in Images,
         HeldBy(lease(s), j), claim[j] = "sound"
  PROVE  /\ lease(s) = FreshLease(j)
         /\ Seen(s) = NoLease \/ Seen(s) = FreshLease(j)
         /\ versions[s] \in {<<NoLease, FreshLease(j)>>, <<FreshLease(j)>>,
                             <<FreshLease(j), FreshLease(j)>>}
<1>1. versions[s] \in {<<NoLease, FreshLease(j)>>, <<FreshLease(j)>>,
                       <<FreshLease(j), FreshLease(j)>>}
  BY DEF SoundLease, HeldBy
<1>2. CASE versions[s] = <<NoLease, FreshLease(j)>>
  BY <1>2 DEF lease, Seen
<1>3. CASE versions[s] = <<FreshLease(j)>>
  BY <1>3 DEF lease, Seen
<1>4. CASE versions[s] = <<FreshLease(j), FreshLease(j)>>
  BY <1>4 DEF lease, Seen
<1> QED BY <1>1, <1>2, <1>3, <1>4

(* The Lease of an image with a sound claim is taken from it by its own    *)
(* reconcile only, which releases it.                                      *)
LEMMA KeepStep ==
  ASSUME SlotInv, [Next]_vars, NEW s \in Slots, NEW j \in Images,
         HeldBy(lease(s), j), claim[j] = "sound", ~HeldBy(lease(s)', j)
  PROVE  CreateJobFails(j) \/ ReleaseSlots(j)
<1> USE DEF SlotInv, SlotRest, HeldBy
<1>1. /\ TypeOK /\ lease(s) = FreshLease(j)
      /\ Seen(s) = NoLease \/ Seen(s) = FreshLease(j)
  BY SoundSeen
<1>2. FreshLease(j) # NoLease /\ FreshLease(j).holder = j /\ FreshLease(j).fresh
  BY FreshLeaseFacts
<1>3. lease(s)' # lease(s)
  OBVIOUS
<1>4. ASSUME NEW i \in Images, NEW rs, Write(ReleasedSlots(i, rs), NoLease)
      PROVE  i = j
  <2>1. s \in ReleasedSlots(i, rs)
    BY <1>1, <1>3, <1>4, WriteFacts
  <2> QED BY <2>1, <1>1, <1>2 DEF ReleasedSlots
<1>5. ASSUME NEW i \in Images, RejectPending(i) PROVE FALSE
  <2>1. refs[i] = {} /\ Write(ReleasedSlots(i, {}), NoLease)
    BY <1>5 DEF RejectPending, Begin, Reconciling, PendingUnrecorded
  <2>2. s \in ReleasedSlots(i, {})
    BY <1>1, <1>3, <2>1, WriteFacts
  <2> QED BY <2>2 DEF ReleasedSlots
<1>6. ASSUME NEW i \in Images, AcquireExpired(i) PROVE FALSE
  <2>1. /\ Write({slot[i]}, NoLease)
        /\ buildLeaseExpired(Seen(slot[i]))
    BY <1>6 DEF AcquireExpired
  <2>2. s = slot[i]
    BY <1>1, <1>3, <2>1, WriteFacts
  <2> QED BY <2>1, <2>2, <1>1, <1>2 DEF buildLeaseExpired
<1>7. ASSUME NEW i \in Images, NEW t \in Slots, CreateLease(i, t)
      PROVE  FALSE
  <2>1. CASE lease(t) = NoLease
    <3>1. Write({t}, FreshLease(i)) /\ FreshLease(i) \in Lease
      BY <1>7, <2>1, FreshLeaseType DEF CreateLease
    <3>2. s = t
      BY <1>1, <1>3, <3>1, WriteFacts
    <3> QED BY <3>2, <2>1
  <2>2. CASE lease(t) # NoLease
    BY <1>3, <1>7, <2>2 DEF CreateLease, lease
  <2> QED BY <2>1, <2>2
<1>8. ASSUME NEW i \in Images, RenewSlots(i) PROVE FALSE
  <2>1. /\ Write({t \in refs[i] : Renews(i, t)}, FreshLease(i))
        /\ FreshLease(i) \in Lease
    BY <1>8, FreshLeaseType DEF RenewSlots
  <2>2. s \in {t \in refs[i] : Renews(i, t)}
    BY <1>1, <1>3, <2>1, WriteFacts
  <2>3. i = j
    BY <2>2, <1>1, <1>2 DEF Renews, CanRenew, buildLeaseExpired
  <2>4. lease(s)' = FreshLease(i)
    BY <1>1, <2>1, <2>2, WriteFacts
  <2> QED BY <2>3, <2>4, <1>2
<1>9. ASSUME NEW i \in Images, CreateJobFails(i) PROVE i = j
  <2>1. \E rs : Write(ReleasedSlots(i, rs), NoLease)
    <3>1. PICK released \in BOOLEAN :
            Write(IF released THEN ReleasedSlots(i, mem[i]) ELSE {}, NoLease)
      BY <1>9 DEF CreateJobFails
    <3>2. ReleasedSlots(i, {}) = {}
      BY DEF ReleasedSlots
    <3> QED BY <3>1, <3>2
  <2> QED BY <1>4, <2>1
<1>10. ASSUME NEW i \in Images, ReleaseSlots(i) PROVE i = j
  BY <1>4, <1>10 DEF ReleaseSlots
<1>11. ASSUME NEW t \in Slots, Expire(t) PROVE FALSE
  <2>1. CASE t = s
    BY <1>1, <1>11, <2>1, ExpireFacts, LeaseAssumption
  <2>2. CASE t # s
    BY <1>1, <1>3, <1>11, <2>2, ExpireFacts DEF lease
  <2> QED BY <2>1, <2>2
<1>12. ASSUME NEW t \in Slots, CacheSync(t) PROVE FALSE
  BY <1>1, <1>3, <1>12, SyncFacts
<1>13. ASSUME NEW i \in Images, AcquireFree(i) \/ RecreateExpired(i)
       PROVE  FALSE
  BY <1>7, <1>13 DEF AcquireFree, Acquiring, RecreateExpired, RecreateSlot
<1>14. versions' # versions
  BY <1>3 DEF lease
<1>15. ASSUME NEW i \in Images PROVE ~AcquireOwn(i)
  BY <1>14 DEF AcquireOwn
<1> QED BY <1>5, <1>6, <1>8, <1>9, <1>10, <1>11, <1>12, <1>13, <1>14, <1>15,
           LeaseSteps

(* Sequences of two elements.                                              *)
LEMMA PairFacts ==
  ASSUME NEW a, NEW b
  PROVE  Append(<<a>>, b) = <<a, b>> /\ Tail(<<a, b>>) = <<b>>
<1>1. Append(<<a>>, b) = <<a, b>>
  <2>1. <<a>> \in Seq({a, b}) /\ Len(<<a>>) = 1
    OBVIOUS
  <2>2. /\ Append(<<a>>, b) \in Seq({a, b})
        /\ Len(Append(<<a>>, b)) = 2
        /\ Append(<<a>>, b)[1] = a /\ Append(<<a>>, b)[2] = b
    BY <2>1, AppendProperties
  <2>3. <<a, b>> \in Seq({a, b}) /\ Len(<<a, b>>) = 2
    OBVIOUS
  <2>4. \A k \in 1 .. 2 : Append(<<a>>, b)[k] = <<a, b>>[k]
    <3>1. <<a, b>>[1] = a /\ <<a, b>>[2] = b
      OBVIOUS
    <3>2. \A k \in 1 .. 2 : k = 1 \/ k = 2
      OBVIOUS
    <3> QED BY <2>2, <3>1, <3>2, Zenon
  <2> QED BY <2>2, <2>3, <2>4, SeqEqual, Zenon
<1>2. Tail(<<a, b>>) = <<b>>
  OBVIOUS
<1> QED BY <1>1, <1>2

(* SoundLease of one slot.                                                 *)
SoundAt(s) ==
  lease(s) # NoLease /\ claim[lease(s).holder] = "sound" =>
    versions[s] \in {<<NoLease, FreshLease(lease(s).holder)>>,
                     <<FreshLease(lease(s).holder)>>,
                     <<FreshLease(lease(s).holder), FreshLease(lease(s).holder)>>}

(* The cache has of a soundly claimed Lease what SoundLease says.          *)
LEMMA SoundStep ==
  ASSUME TypeOK, RecreateSlot, SoundLease, [Next]_vars
  PROVE  SoundLease'
<1> SUFFICES ASSUME NEW s \in Slots PROVE SoundAt(s)'
  BY DEF SoundLease, SoundAt
<1>1. SoundAt(s)
  BY DEF SoundLease, SoundAt
<1>2. ASSUME versions'[s] = versions[s],
             \A j \in Images : claim'[j] = "sound" => claim[j] = "sound"
      PROVE  SoundAt(s)'
  <2>1. lease(s)' = lease(s) /\ lease(s) \in Lease \cup {NoLease}
    BY <1>2, LeaseTypes DEF lease
  <2>2. CASE lease(s) = NoLease
    BY <2>1, <2>2 DEF SoundAt
  <2>3. CASE lease(s) \in Lease
    <3>1. lease(s).holder \in Images
      BY <2>3 DEF Lease
    <3> QED BY <2>1, <3>1, <1>1, <1>2 DEF SoundAt, FreshLease
  <2> QED BY <2>1, <2>2, <2>3
<1>3. ASSUME NEW ss, Write(ss, NoLease),
             \A j \in Images : claim'[j] = "sound" => claim[j] = "sound"
      PROVE  SoundAt(s)'
  <2>1. CASE s \in ss
    BY <1>3, <2>1, WriteFacts DEF SoundAt
  <2>2. CASE s \notin ss
    BY <1>2, <1>3, <2>2, WriteFacts
  <2> QED BY <2>1, <2>2
<1>4. ASSUME NEW i \in Images, NEW well, Claims(i, well)
      PROVE  \A j \in Images : claim'[j] = "sound" =>
                                 claim[j] = "sound" /\ (j = i => well)
  BY <1>4 DEF Claims, TypeOK
<1>5. ASSUME NEW i \in Images, NEW ss, s \in ss,
             Write(ss, FreshLease(i)), ReadsWell(i, s), claim[i] = "sound"
      PROVE  versions'[s] \in {<<NoLease, FreshLease(i)>>,
                               <<FreshLease(i), FreshLease(i)>>}
  <2>1. versions'[s] = Append(versions[s], FreshLease(i))
    BY <1>5, FreshLeaseFacts DEF Write
  <2>2. PICK x : versions[s] = <<x>> /\ Len(versions[s]) = 1
    BY <1>5, LeaseTypes DEF ReadsWell, Current
  <2>3. lease(s) = x /\ Seen(s) = x
    BY <2>2 DEF lease, Seen
  <2>4. x = NoLease \/ x = FreshLease(i)
    BY <1>5, <2>3, SoundSeen DEF ReadsWell
  <2>5. versions'[s] = <<x, FreshLease(i)>>
    BY <2>1, <2>2, PairFacts
  <2> QED BY <2>4, <2>5
<1>6. ASSUME NEW i \in Images, NEW ss, s \in ss, Write(ss, FreshLease(i)),
             claim'[i] = "sound" => claim[i] = "sound" /\ ReadsWell(i, s)
      PROVE  SoundAt(s)'
  <2>1. lease(s)' = FreshLease(i)
    BY <1>6, FreshLeaseType, WriteFacts
  <2>2. lease(s)' # NoLease /\ lease(s)'.holder = i
    BY <2>1, FreshLeaseFacts
  <2> QED BY <1>5, <1>6, <2>2 DEF SoundAt, FreshLease
<1>7. ASSUME NEW i \in Images, NEW t \in Slots, CreateLease(i, t)
      PROVE  SoundAt(s)'
  <2>1. CASE lease(t) # NoLease
    BY <1>2, <1>7, <2>1 DEF CreateLease, NextSlot
  <2>2. CASE lease(t) = NoLease
    <3>1. Write({t}, FreshLease(i)) /\ Claims(i, ReadsWell(i, t))
      BY <1>7, <2>2 DEF CreateLease, Take
    <3>2. CASE s = t
      BY <1>4, <1>6, <3>1, <3>2
    <3>3. CASE s # t
      BY <1>2, <1>4, <3>1, <3>3, WriteFacts, FreshLeaseType
    <3> QED BY <3>2, <3>3
  <2> QED BY <2>1, <2>2
<1>8. ASSUME NEW i \in Images, RenewSlots(i) PROVE SoundAt(s)'
  <2> DEFINE ss == {t \in refs[i] : Renews(i, t)}
  <2>1. /\ Write(ss, FreshLease(i))
        /\ Claims(i, \A t \in refs[i] : Renews(i, t) => ReadsWell(i, t))
    BY <1>8 DEF RenewSlots
  <2>2. \A j \in Images : claim'[j] = "sound" => claim[j] = "sound"
    BY <1>4, <2>1
  <2>3. claim'[i] = "sound" =>
          \A t \in refs[i] : Renews(i, t) => ReadsWell(i, t)
    BY <1>4, <2>1
  <2>4. CASE s \in ss
    BY <1>6, <2>1, <2>2, <2>3, <2>4
  <2>5. CASE s \notin ss
    <3> HIDE DEF ss
    <3> QED BY <1>2, <2>1, <2>2, <2>5, WriteFacts, FreshLeaseType
  <2> QED BY <2>4, <2>5
<1>9. ASSUME NEW t \in Slots, Expire(t) PROVE SoundAt(s)'
  <2>1. /\ lease(t) \in Lease
        /\ lease(t)'.holder = lease(t).holder
        /\ \A u \in Slots : u # t => versions'[u] = versions[u]
    BY <1>9, ExpireFacts
  <2>2. lease(t).holder \in Images
    BY <2>1 DEF Lease
  <2>3. claim' = [claim EXCEPT ![lease(t).holder] = "lapsed"]
    BY <1>9 DEF Expire
  <2>4. CASE s = t
    BY <2>1, <2>2, <2>3, <2>4 DEF SoundAt, TypeOK
  <2>5. CASE s # t
    BY <1>2, <2>1, <2>3, <2>5 DEF TypeOK
  <2> QED BY <2>4, <2>5
<1>10. ASSUME NEW t \in Slots, CacheSync(t) PROVE SoundAt(s)'
  <2>1. CASE s # t
    BY <1>2, <1>10, <2>1, SyncFacts DEF CacheSync
  <2>2. CASE s = t
    <3>1. lease(s)' = lease(s) /\ versions'[s] = Tail(versions[s])
      BY <1>10, <2>2, SyncFacts
    <3>2. claim' = claim /\ Len(versions[s]) # 1
      BY <1>10, <2>2 DEF CacheSync, Current
    <3> SUFFICES ASSUME lease(s) # NoLease, claim[lease(s).holder] = "sound"
                 PROVE  versions'[s] = <<FreshLease(lease(s).holder)>>
      BY <3>1, <3>2 DEF SoundAt, FreshLease
    <3> DEFINE F == FreshLease(lease(s).holder)
    <3>3. versions[s] = <<NoLease, F>> \/ versions[s] = <<F, F>>
      BY <1>1, <3>2 DEF SoundAt
    <3> HIDE DEF F
    <3>4. versions'[s] = <<F>>
      BY <3>1, <3>3, PairFacts
    <3> QED BY <3>4 DEF F
  <2> QED BY <2>1, <2>2
<1>11. ASSUME NEW i \in Images,
              RejectPending(i) \/ AcquireExpired(i) \/ CreateJobFails(i)
                \/ ReleaseSlots(i)
       PROVE  SoundAt(s)'
  <2>1. claim' = claim /\ \E ss : Write(ss, NoLease)
    BY <1>11 DEF RejectPending, AcquireExpired, CreateJobFails, ReleaseSlots
  <2> QED BY <1>3, <2>1
<1>12. ASSUME NEW i \in Images, AcquireOwn(i) PROVE SoundAt(s)'
  BY <1>2, <1>4, <1>12 DEF AcquireOwn, Take
<1>13. ASSUME NEW i \in Images, AcquireFree(i) \/ RecreateExpired(i)
       PROVE  SoundAt(s)'
  BY <1>7, <1>13 DEF AcquireFree, Acquiring, RecreateExpired, RecreateSlot
<1>14. CASE UNCHANGED <<versions, claim>>
  BY <1>2, <1>14
<1> QED BY <1>8, <1>9, <1>10, <1>11, <1>12, <1>13, <1>14, LeaseSteps

(* The claim of an image only ever gets worse.                             *)
LEMMA ClaimStep ==
  ASSUME OtherTypes, [Next]_vars, NEW j \in Images, claim'[j] = "sound"
  PROVE  claim[j] = "sound"
<1> USE DEF OtherTypes, Claims, Take, NextSlot, CreateLease
<1>1. ASSUME NEW i \in Images,
             \/ RejectPending(i) \/ AcquireExpired(i) \/ RenewSlots(i)
             \/ CreateJobFails(i) \/ ReleaseSlots(i) \/ AcquireOwn(i)
             \/ AcquireFree(i) \/ RecreateExpired(i)
      PROVE  claim[j] = "sound"
  BY <1>1 DEF RejectPending, AcquireExpired, RenewSlots, CreateJobFails,
     ReleaseSlots, AcquireOwn, AcquireFree, RecreateExpired
<1>2. ASSUME NEW t \in Slots, Expire(t) \/ CacheSync(t)
      PROVE  claim[j] = "sound"
  BY <1>2 DEF Expire, CacheSync
<1> QED BY <1>1, <1>2, LeaseSteps

(* What it takes to be about to create the Job, or to have created it.     *)
LEMMA CarrySteps ==
  ASSUME OtherTypes, Reconciling, [Next]_vars, NEW j \in Images,
         pc'[j] \in {"createJob", "markBuilding"}
  PROVE  \/ maxConcurrentBuilds = 0
         \/ pc[j] \in {"createJob", "markBuilding"} /\ mem'[j] = mem[j]
         \/ AcquireOwn(j)
         \/ AcquireFree(j) /\ mem'[j] = {slot[j]} /\ lease(slot[j]) = NoLease
         \/ RecreateExpired(j) /\ mem'[j] = {slot[j]}
              /\ lease(slot[j]) = NoLease
<1> USE DEF OtherTypes, Goto, statusVars, envVars, opVars
<1>1. CASE UNCHANGED vars
  BY <1>1 DEF vars
<1>2. ASSUME NEW i \in Images, NEW s, CreateLease(i, s), i = j
      PROVE  mem'[j] = {s} /\ lease(s) = NoLease
  BY <1>2 DEF CreateLease, Take, NextSlot
<1>3. ASSUME NEW i \in Images, NEW s, CreateLease(i, s), i # j
      PROVE  pc'[j] = pc[j] /\ mem'[j] = mem[j]
  BY <1>3 DEF CreateLease, Take, NextSlot
<1>4. ASSUME NEW i \in Images, StartPending(i)
      PROVE  \/ maxConcurrentBuilds = 0
             \/ pc'[j] = pc[j] /\ mem'[j] = mem[j]
  BY <1>4 DEF StartPending, Begin, Reconciling, PendingUnrecorded
<1>5. ASSUME NEW i \in Images,
             \/ RejectPending(i) \/ AcquireExpired(i) \/ SkipHeld(i)
             \/ QueueBuild(i) \/ AssembleFails(i) \/ CreateJobFails(i)
             \/ MarkBuilding(i)
      PROVE  pc'[j] = pc[j] /\ mem'[j] = mem[j]
  BY <1>5 DEF RejectPending, AcquireExpired, SkipHeld, NextSlot, QueueBuild,
     AssembleFails, CreateJobFails, MarkBuilding
<1>6. ASSUME NEW i \in Images,
             \/ ObserveFinished(i) \/ RenewSlots(i) \/ ReleaseSlots(i)
             \/ WriteStatus(i) \/ StartDelete(i) \/ StatusConflict(i)
             \/ Fault(i)
      PROVE  pc'[j] = pc[j] /\ mem'[j] = mem[j]
  BY <1>6 DEF ObserveFinished, RenewSlots, BeginRelease, ReleaseSlots,
     WriteStatus, StartDelete, StatusConflict, Fault, Abort
<1>7. ASSUME NEW i \in Images, CreateJob(i)
      PROVE  pc[j] \in {"createJob", "markBuilding"} /\ mem'[j] = mem[j]
  BY <1>7 DEF CreateJob
<1>8. ASSUME NEW i \in Images, AcquireOwn(i), i # j
      PROVE  pc'[j] = pc[j] /\ mem'[j] = mem[j]
  BY <1>8 DEF AcquireOwn, Take
<1>9. ASSUME NEW i \in Images, Environment(i)
      PROVE  pc'[j] = pc[j] /\ mem'[j] = mem[j]
  BY <1>9 DEF Environment, RequestDelete, JobFinishes, JobRemoved,
     BuildTimesOut
<1>10. ASSUME NEW s \in Slots, Expire(s) \/ CacheSync(s)
       PROVE  pc'[j] = pc[j] /\ mem'[j] = mem[j]
  BY <1>10 DEF Expire, CacheSync
<1>11. ASSUME NEW i \in Images, AcquireFree(i)
       PROVE  \/ pc'[j] = pc[j] /\ mem'[j] = mem[j]
              \/ i = j /\ mem'[j] = {slot[j]} /\ lease(slot[j]) = NoLease
  BY <1>2, <1>3, <1>11 DEF AcquireFree
<1>12. ASSUME NEW i \in Images, RecreateExpired(i)
       PROVE  \/ pc'[j] = pc[j] /\ mem'[j] = mem[j]
              \/ i = j /\ mem'[j] = {slot[j]} /\ lease(slot[j]) = NoLease
  BY <1>2, <1>3, <1>12 DEF RecreateExpired
<1> QED
  BY <1>1, <1>4, <1>5, <1>6, <1>7, <1>8, <1>9, <1>10, <1>11, <1>12
     DEF Next, Reconcile, Start, Advance

(* A reconcile that goes on to create the Job holds the slot it carries.   *)
LEMMA CarryStep ==
  ASSUME SlotInv, [Next]_vars
  PROVE  CarriesSlot'
<1> SUFFICES ASSUME NEW j \in Images, claim'[j] = "sound",
                    pc'[j] \in {"createJob", "markBuilding"},
                    maxConcurrentBuilds # 0
             PROVE  \E s \in mem'[j] : HeldBy(lease(s)', j)
  BY DEF CarriesSlot, Carries, HeldBy
<1>1. TypeOK /\ OtherTypes /\ RecreateSlot /\ Reconciling
  BY TypeParts DEF SlotInv, SlotRest
<1>2. claim[j] = "sound"
  BY <1>1, ClaimStep
<1>3. CASE pc[j] \in {"createJob", "markBuilding"} /\ mem'[j] = mem[j]
  <2>1. PICK s \in mem[j] : HeldBy(lease(s), j)
    BY <1>2, <1>3 DEF SlotInv, SlotRest, CarriesSlot, Carries
  <2>2. s \in Slots
    BY <1>1 DEF OtherTypes
  <2>3. ~CreateJobFails(j) /\ ~ReleaseSlots(j)
    BY <1>1, <1>3 DEF CreateJobFails, ReleaseSlots, Goto, OtherTypes
  <2>4. HeldBy(lease(s)', j)
    BY <1>2, <2>1, <2>2, <2>3, KeepStep
  <2> QED BY <1>3, <2>1, <2>4
<1>4. CASE AcquireOwn(j)
  <2>1. PICK t \in Slots : t = slot[j]
    BY <1>4 DEF AcquireOwn, Acquiring
  <2>2. /\ mem'[j] = {t}
        /\ Claims(j, ReadsWell(j, t))
        /\ versions' = versions
        /\ HeldBy(Seen(t), j)
    BY <1>1, <1>4, <2>1 DEF AcquireOwn, Take, OtherTypes
  <2>3. ReadsWell(j, t)
    BY <1>1, <1>2, <2>2 DEF Claims, OtherTypes
  <2>4. lease(t)' = Seen(t)
    BY <2>2, <2>3 DEF ReadsWell, Current, lease, Seen
  <2> QED BY <2>2, <2>4
<1>5. ASSUME NEW t \in Slots, CreateLease(j, t),
             mem'[j] = {t}, lease(t) = NoLease
      PROVE  \E s \in mem'[j] : HeldBy(lease(s)', j)
  <2>1. Write({t}, FreshLease(j))
    BY <1>5 DEF CreateLease
  <2>2. lease(t)' = FreshLease(j)
    BY <1>1, <2>1, WriteFacts, FreshLeaseType
  <2> QED BY <1>5, <2>2, FreshLeaseFacts DEF HeldBy
<1> QED
  BY <1>1, <1>3, <1>4, <1>5, CarrySteps
     DEF AcquireFree, Acquiring, RecreateExpired, RecreateSlot

(* What it takes to count as building.                                     *)
LEMMA BuildSteps ==
  ASSUME OtherTypes, Reconciling, [Next]_vars, NEW j \in Images,
         InProgress(j)'
  PROVE  \/ MarkBuilding(j)
         \/ /\ InProgress(j) /\ refs'[j] = refs[j]
            /\ ~CreateJobFails(j) /\ ~ReleaseSlots(j)
<1> USE DEF OtherTypes, InProgress, Goto, statusVars, envVars, Phases,
        Reconciling, EarlyPending, EarlySteps, ReleaseDue, GoalFinal
<1>1. ~CreateJobFails(j)
  BY DEF CreateJobFails
<1>2. ~ReleaseSlots(j)
  BY DEF ReleaseSlots
<1>3. CASE UNCHANGED vars
  BY <1>1, <1>2, <1>3 DEF vars
<1>4. ASSUME NEW i \in Images, UNCHANGED <<statusVars, envVars>>
      PROVE  InProgress(j) /\ refs'[j] = refs[j]
  BY <1>4
<1>5. ASSUME NEW i \in Images,
             \/ StartPending(i) \/ AcquireFree(i) \/ AcquireOwn(i)
             \/ AcquireExpired(i) \/ RecreateExpired(i) \/ SkipHeld(i)
             \/ QueueBuild(i) \/ AssembleFails(i) \/ ObserveFinished(i)
             \/ RenewSlots(i) \/ ReleaseSlots(i) \/ StartDelete(i)
             \/ Fault(i) \/ StatusConflict(i)
      PROVE  UNCHANGED <<statusVars, envVars>>
  BY <1>5 DEF StartPending, AcquireFree, AcquireOwn, AcquireExpired,
     RecreateExpired, SkipHeld, QueueBuild, AssembleFails, ObserveFinished,
     RenewSlots, ReleaseSlots, StartDelete, Fault, StatusConflict, Abort
<1>6. ASSUME NEW i \in Images,
             \/ RejectPending(i) \/ CreateJob(i) \/ CreateJobFails(i)
             \/ WriteStatus(i) \/ Environment(i)
      PROVE  InProgress(j) /\ refs'[j] = refs[j]
  BY <1>6 DEF RejectPending, CreateJob, CreateJobFails, WriteStatus,
     Environment, RequestDelete, JobFinishes, JobRemoved, BuildTimesOut
<1>7. ASSUME NEW i \in Images, MarkBuilding(i), i # j
      PROVE  InProgress(j) /\ refs'[j] = refs[j]
  BY <1>7 DEF MarkBuilding
<1>8. ASSUME NEW s \in Slots, Expire(s) \/ CacheSync(s)
      PROVE  InProgress(j) /\ refs'[j] = refs[j]
  BY <1>8 DEF Expire, CacheSync
<1> QED
  BY <1>1, <1>2, <1>3, <1>4, <1>5, <1>6, <1>7, <1>8
     DEF Next, Reconcile, Start, Advance

(* A build in progress holds the slot its status records.                  *)
LEMMA HoldStep ==
  ASSUME SlotInv, [Next]_vars
  PROVE  BuildingHoldsSlot'
<1> SUFFICES ASSUME NEW j \in Images, claim'[j] = "sound", InProgress(j)',
                    maxConcurrentBuilds # 0
             PROVE  \E s \in refs'[j] : HeldBy(lease(s)', j)
  BY DEF BuildingHoldsSlot, HeldBy
<1>1. TypeOK /\ OtherTypes /\ Reconciling
  BY TypeParts DEF SlotInv, SlotRest
<1>2. claim[j] = "sound"
  BY <1>1, ClaimStep
<1>3. CASE MarkBuilding(j)
  <2>1. PICK s \in mem[j] : HeldBy(lease(s), j)
    BY <1>2, <1>3 DEF SlotInv, SlotRest, CarriesSlot, Carries, MarkBuilding
  <2>2. refs'[j] = mem[j] /\ versions' = versions
    BY <1>1, <1>3 DEF MarkBuilding, OtherTypes
  <2> QED BY <2>1, <2>2 DEF lease
<1>4. CASE /\ InProgress(j) /\ refs'[j] = refs[j]
           /\ ~CreateJobFails(j) /\ ~ReleaseSlots(j)
  <2>1. PICK s \in refs[j] : HeldBy(lease(s), j)
    BY <1>2, <1>4 DEF SlotInv, SlotRest, BuildingHoldsSlot
  <2>2. s \in Slots
    BY <1>1 DEF OtherTypes
  <2>3. HeldBy(lease(s)', j)
    BY <1>2, <1>4, <2>1, <2>2, KeepStep
  <2> QED BY <1>4, <2>1, <2>3
<1> QED BY <1>1, <1>3, <1>4, BuildSteps

(* The controller keeps the whole invariant, however old its cache is.     *)
LEMMA SlotInvariant == Spec => []SlotInv
<1>1. Init => SlotInv
  <2> SUFFICES ASSUME Init PROVE SlotInv
    OBVIOUS
  <2>1. TypeOK /\ RecreateSlot
    BY SlotsFacts DEF Init, TypeOK, RecreateSlot, Phases, JobStates, Steps
  <2>2. Reconciling
    BY DEF Init, Reconciling, OneWorker, EarlyPending, EarlySteps,
       PendingUnrecorded, ReleaseDue, GoalFinal
  <2>3. \A s \in Slots : lease(s) = NoLease
    BY DEF Init, lease
  <2>4. SoundLease
    BY <2>3 DEF SoundLease
  <2>5. CarriesSlot /\ BuildingHoldsSlot
    BY DEF Init, CarriesSlot, BuildingHoldsSlot, InProgress
  <2> QED BY <2>1, <2>2, <2>4, <2>5 DEF SlotInv, SlotRest
<1>2. SlotInv /\ [Next]_vars => SlotInv'
  <2> SUFFICES ASSUME SlotInv, [Next]_vars PROVE SlotInv'
    OBVIOUS
  <2>1. TypeOK' /\ RecreateSlot'
    BY TypeStep DEF SlotInv
  <2>2. Reconciling'
    BY ReconcilingStep, TypeParts DEF SlotInv, SlotRest
  <2>3. SoundLease'
    BY SoundStep DEF SlotInv, SlotRest
  <2>4. CarriesSlot' /\ BuildingHoldsSlot'
    BY CarryStep, HoldStep
  <2> QED BY <2>1, <2>2, <2>3, <2>4 DEF SlotInv, SlotRest
<1> QED BY <1>1, <1>2, PTL DEF Spec

(* For every set of images, every limit, every pattern of crashes and      *)
(* every lag of the cache, a build in progress whose claim is sound holds  *)
(* the slot its status records.                                            *)
THEOREM BuildHoldsItsSlot == Spec => []BuildingHoldsSlot
<1>1. SlotInv => BuildingHoldsSlot
  BY DEF SlotInv, SlotRest
<1> QED BY <1>1, SlotInvariant, PTL

(* The holders of a set of slots are no more than the slots.               *)
LEMMA LimitStep ==
  SlotInv => BuildsWithinLimit
<1> DEFINE builds == {i \in Images : InProgress(i) /\ claim[i] = "sound"}
           holder == [s \in Slots |-> lease(s).holder]
           holders == {holder[s] : s \in Slots}
<1> SUFFICES ASSUME SlotInv, maxConcurrentBuilds > 0
             PROVE  Cardinality(builds) <= maxConcurrentBuilds
  BY DEF BuildsWithinLimit
<1>1. IsFiniteSet(holders) /\ Cardinality(holders) <= Cardinality(Slots)
  <2>1. holder \in Surjection(Slots, holders)
    BY DEF Surjection
  <2> HIDE DEF holder, holders
  <2> QED BY <2>1, SlotsFacts, FS_Surjection
<1>2. builds \subseteq holders
  <2> SUFFICES ASSUME NEW i \in builds PROVE i \in holders
    OBVIOUS
  <2>1. PICK s \in refs[i] : HeldBy(lease(s), i)
    BY SlotsFacts DEF SlotInv, SlotRest, BuildingHoldsSlot
  <2>2. s \in Slots
    BY TypeParts DEF SlotInv, OtherTypes
  <2>3. holder[s] = i
    BY <2>1, <2>2 DEF HeldBy
  <2> QED BY <2>2, <2>3
<1>3. Cardinality(builds) <= Cardinality(holders)
  <2> HIDE DEF builds, holders
  <2> QED BY <1>1, <1>2, FS_Subset
<1>4. /\ Cardinality(builds) \in Nat
      /\ Cardinality(holders) \in Nat
  <2> HIDE DEF builds, holders
  <2>1. IsFiniteSet(builds)
    BY <1>1, <1>2, FS_Subset
  <2> QED BY <1>1, <2>1, FS_CardinalityType
<1> HIDE DEF builds, holders
<1> QED BY <1>1, <1>3, <1>4, SlotsFacts

(* The builds in progress with sound claims never exceed the limit,        *)
(* whatever crashes and however old the cached Leases are.                 *)
THEOREM LimitHolds == Spec => []BuildsWithinLimit
BY LimitStep, SlotInvariant, PTL

(* No step but the holder's own takes a soundly claimed Lease from it.     *)
THEOREM LiveLeasesAreKept == Spec => LiveLeaseKept
<1>1. SlotInv /\ [Next]_vars =>
        [\A s \in Slots :
           /\ lease(s) # NoLease /\ lease(s).fresh
           /\ claim[lease(s).holder] = "sound"
           /\ ~HeldBy(lease(s)', lease(s).holder)
           => pc[lease(s).holder] # "idle"]_vars
  <2> SUFFICES ASSUME SlotInv, [Next]_vars, NEW s \in Slots,
                      lease(s) # NoLease, claim[lease(s).holder] = "sound",
                      ~HeldBy(lease(s)', lease(s).holder)
               PROVE  pc[lease(s).holder] # "idle"
    OBVIOUS
  <2>1. lease(s).holder \in Images
    BY LeaseTypes DEF SlotInv, Lease
  <2>2. CreateJobFails(lease(s).holder) \/ ReleaseSlots(lease(s).holder)
    BY <2>1, KeepStep DEF HeldBy
  <2> QED BY <2>2 DEF CreateJobFails, ReleaseSlots
<1> QED BY <1>1, SlotInvariant, PTL DEF Spec, LiveLeaseKept
=============================================================================
