-------------------------- MODULE ThreadingProofs --------------------------
(***************************************************************************)
(* Theorems about Threading, for any number of threads and any of the      *)
(* calls failing.                                                          *)
(***************************************************************************)
EXTENDS Threading, TLAPS

(* The two safety properties with the types they need; inductive. *)
ThreadingInv == TypeOK /\ HolderOwns /\ SuccessMeansReleased

(* The example starts in the invariant. *)
LEMMA ThreadingInit == Init => ThreadingInv
  BY ThreadingAssumption
  DEF Init, ThreadingInv, TypeOK, HolderOwns, SuccessMeansReleased, Users, Labels

(* Taking the mutex keeps the invariant, for a thread and for the caller.  *)
LEMMA LockKeepsInv ==
  ASSUME ThreadingInv, NEW u \in Users, Lock(u)
  PROVE  ThreadingInv'
  BY ThreadingAssumption
  DEF Lock, Lockable, Goto, ThreadingInv, TypeOK, HolderOwns, SuccessMeansReleased, Users, Labels

(* A step of threadfunc keeps the invariant. *)
LEMMA threadfuncKeepsInv ==
  ASSUME ThreadingInv, NEW t \in Threads, threadfunc(t)
  PROVE  ThreadingInv'
  <1>1. CASE Lock(t)
    BY <1>1, LockKeepsInv DEF Users
  <1>2. CASE LockFails(t)
    <2>1. TypeOK'
      BY <1>2 DEF LockFails, Fails, Goto, ThreadingInv, TypeOK, Users, Labels
    <2>2. failed'["lock"] # {}
      BY <1>2 DEF LockFails, Fails, ThreadingInv, TypeOK
    <2>3. SuccessMeansReleased'
      BY <1>2 DEF LockFails, Goto, ThreadingInv, TypeOK, SuccessMeansReleased, Users
    <2> QED BY <2>1, <2>2, <2>3 DEF ThreadingInv, HolderOwns
  <1>3. CASE Unlock(t)
    <2>1. TypeOK'
      BY <1>3 DEF Unlock, Released, Goto, ThreadingInv, TypeOK, Users, Labels
    <2>2. HolderOwns'
      BY <1>3 DEF Unlock, Released, Goto, ThreadingInv, TypeOK, HolderOwns, Users
    <2>3. SuccessMeansReleased'
      BY <1>3, ThreadingAssumption DEF Unlock, Released, SuccessMeansReleased, Users
    <2> QED BY <2>1, <2>2, <2>3 DEF ThreadingInv
  <1>4. CASE UnlockFails(t)
    <2>1. TypeOK'
      BY <1>4 DEF UnlockFails, FlagOnFailure, Fails, Goto, ThreadingInv, TypeOK, Users, Labels
    <2>2. failed'["lock"] = failed["lock"]
      BY <1>4 DEF UnlockFails, Fails, ThreadingInv, TypeOK
    <2>3. HolderOwns'
      BY <1>4, <2>2 DEF UnlockFails, Goto, ThreadingInv, TypeOK, HolderOwns, Users
    <2>4. SuccessMeansReleased'
      BY <1>4 DEF UnlockFails, FlagOnFailure, Goto, ThreadingInv, TypeOK, SuccessMeansReleased, Users
    <2> QED BY <2>1, <2>3, <2>4 DEF ThreadingInv
  <1> QED BY <1>1, <1>2, <1>3, <1>4 DEF threadfunc

(* A step of the caller keeps the invariant. *)
LEMMA CallerUsesKeepsInv ==
  ASSUME ThreadingInv, CallerUses
  PROVE  ThreadingInv'
  <1>1. CASE Lock(Caller)
    BY <1>1, LockKeepsInv DEF Users
  <1>2. CASE CallerUnlock
    BY <1>2, ThreadingAssumption
    DEF CallerUnlock, Goto, ThreadingInv, TypeOK, HolderOwns, SuccessMeansReleased, Users, Labels
  <1> QED BY <1>1, <1>2 DEF CallerUses

(* Starting a thread and joining it keep the invariant. *)
LEMMA StartJoinKeepInv ==
  ASSUME ThreadingInv, NEW t \in Threads, start_thread_obtaining_mutex(t) \/ Join(t)
  PROVE  ThreadingInv'
  <1>1. CASE start_thread_obtaining_mutex(t)
    <2>1. TypeOK'
      BY <1>1
      DEF start_thread_obtaining_mutex, Fails, Goto, ThreadingInv, TypeOK, Users, Labels
    <2>2. failed'["lock"] = failed["lock"]
      BY <1>1 DEF start_thread_obtaining_mutex, Fails, ThreadingInv, TypeOK
    <2>3. HolderOwns' /\ SuccessMeansReleased'
      BY <1>1, <2>2
      DEF start_thread_obtaining_mutex, Goto, ThreadingInv, TypeOK, HolderOwns,
          SuccessMeansReleased, Users
    <2> QED BY <2>1, <2>3 DEF ThreadingInv
  <1>2. CASE Join(t)
    BY <1>2 DEF Join, Goto, ThreadingInv, TypeOK, HolderOwns, SuccessMeansReleased, Users, Labels
  <1> QED BY <1>1, <1>2

(* The invariant holds along every behaviour of the example. *)
THEOREM ThreadingInvariant == Spec => []ThreadingInv
  <1>1. ThreadingInv /\ [Next]_vars => ThreadingInv'
    <2> SUFFICES ASSUME ThreadingInv, [Next]_vars PROVE ThreadingInv'
      OBVIOUS
    <2>1. CASE CallerUses
      BY <2>1, CallerUsesKeepsInv
    <2>2. ASSUME NEW t \in Threads,
                 start_thread_obtaining_mutex(t) \/ threadfunc(t) \/ Join(t)
          PROVE  ThreadingInv'
      BY <2>2, StartJoinKeepInv, threadfuncKeepsInv
    <2>3. CASE UNCHANGED vars
      BY <2>3 DEF vars, ThreadingInv, TypeOK, HolderOwns, SuccessMeansReleased
    <2> QED BY <2>1, <2>2, <2>3 DEF Next
  <1> QED BY <1>1, ThreadingInit, PTL DEF Spec

(* Unless a lock failed, the users of the mutex exclude one another. *)
THEOREM HolderOwnsHolds == Spec => []HolderOwns
  <1>1. ThreadingInv => HolderOwns
    BY DEF ThreadingInv
  <1> QED BY <1>1, ThreadingInvariant, PTL

(* A thread that kept the mutex says so in its flag, whatever failed. *)
THEOREM SuccessMeansReleasedHolds == Spec => []SuccessMeansReleased
  <1>1. ThreadingInv => SuccessMeansReleased
    BY DEF ThreadingInv
  <1> QED BY <1>1, ThreadingInvariant, PTL
=============================================================================
