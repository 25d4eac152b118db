------------------------- MODULE ErrorHandlerProofs -------------------------
(***************************************************************************)
(* Proofs about ErrorHandler, for any number of threads, reports and       *)
(* callbacks: whoever handles an error owns the mutex, so that the fields  *)
(* a thread has stored stay its own until it unlocks.                      *)
(***************************************************************************)
EXTENDS ErrorHandler, TLAPS

(* A thread stores fewer fields than there are, and those it has stored are *)
(* still there; behind the last one the whole error is there.               *)
StoredStays ==
  \A t \in Threads :
    /\ at[t] = "lock" => stored[t] = 0
    /\ at[t] = "store" => stored[t] \in 0 .. 2
    /\ at[t] = "store" => \A f \in Fields : f <= stored[t] => error[f] = report[t]
    /\ at[t] \in (Section \ {"store"}) \cup {"relock"} =>
         \A f \in Fields : error[f] = report[t]

(* A thread in HandleAnError has a report. *)
HasReport == \A t \in Threads : at[t] # "idle" => report[t] \in Reports

IInv == TypeOK /\ LockIsGivenBack /\ HasReport /\ StoredStays

LEMMA InitInv == Init => IInv
<1> SUFFICES ASSUME Init PROVE IInv
  OBVIOUS
<1>1. TypeOK
  <2>1. at \in [Threads -> Section \cup {"idle", "lock", "relock"}]
    BY DEF Init
  <2>2. stored \in [Threads -> 0 .. 3]
    BY DEF Init
  <2>3. /\ error \in [Fields -> Reports \cup {NoReport}]
        /\ report \in [Threads -> Reports \cup {NoReport}]
        /\ called \in [Threads -> Callbacks \cup {NoCallback}]
    BY DEF Init
  <2> QED
    BY <2>1, <2>2, <2>3 DEF Init, TypeOK
<1>2. \A t \in Threads : at[t] = "idle" /\ mutex # t
  BY FreeAssumption DEF Init
<1>3. LockIsGivenBack /\ HasReport /\ StoredStays
  BY <1>2 DEF LockIsGivenBack, HasReport, StoredStays, Section
<1> QED
  BY <1>1, <1>3 DEF IInv

(* A step of one thread, for the others: it moves at nobody else, and takes  *)
(* or gives back the mutex only while no other thread has it.                *)
LEMMA StepInv == IInv /\ [Next]_vars => IInv'
<1> SUFFICES ASSUME IInv, [Next]_vars
             PROVE  IInv'
  OBVIOUS
<1> USE CallbacksAssumption, FreeAssumption, NoReportAssumption
<1>1. ASSUME NEW t \in Threads, NEW r \in Reports, Raise(t, r)
      PROVE  IInv'
  BY <1>1 DEF IInv, TypeOK, LockIsGivenBack, HasReport, StoredStays, Section, Fields, Raise, Goes
<1>2. ASSUME NEW t \in Threads, Lock(t)
      PROVE  IInv'
  BY <1>2 DEF IInv, TypeOK, LockIsGivenBack, HasReport, StoredStays, Section, Fields, Lock, Goes
<1>3. ASSUME NEW t \in Threads, Store(t)
      PROVE  IInv'
  BY <1>3 DEF IInv, TypeOK, LockIsGivenBack, HasReport, StoredStays, Section, Fields, Store, Goes
<1>4. ASSUME NEW t \in Threads, Check(t)
      PROVE  IInv'
  BY <1>4 DEF IInv, TypeOK, LockIsGivenBack, HasReport, StoredStays, Section, Fields, Check, Goes
<1>5. ASSUME NEW t \in Threads, Call(t)
      PROVE  IInv'
  BY <1>5 DEF IInv, TypeOK, LockIsGivenBack, HasReport, StoredStays, Section, Fields, Call, Goes
<1>6. ASSUME NEW t \in Threads, Unlock(t)
      PROVE  IInv'
  BY <1>6 DEF IInv, TypeOK, LockIsGivenBack, HasReport, StoredStays, Section, Fields, Unlock, Goes
<1>7. ASSUME NEW t \in Threads, Return(t)
      PROVE  IInv'
  BY <1>7 DEF IInv, TypeOK, LockIsGivenBack, HasReport, StoredStays, Section, Fields, Return, Goes
<1>8. ASSUME NEW t \in Threads, Throw(t)
      PROVE  IInv'
  BY <1>8 DEF IInv, TypeOK, LockIsGivenBack, HasReport, StoredStays, Section, Fields, Throw, Goes
<1>9. ASSUME NEW t \in Threads, NEW r \in Reports, Reenter(t, r)
      PROVE  IInv'
  BY <1>9 DEF IInv, TypeOK, LockIsGivenBack, HasReport, StoredStays, Section, Fields, Reenter, Goes
<1>10. ASSUME NEW t \in Threads, NEW cb \in Callbacks \cup {NoCallback}, SetErrorCallback(t, cb)
       PROVE  IInv'
  BY <1>10 DEF IInv, TypeOK, LockIsGivenBack, HasReport, StoredStays, Section, Fields, SetErrorCallback
<1>11. CASE UNCHANGED vars
  BY <1>11 DEF IInv, TypeOK, LockIsGivenBack, HasReport, StoredStays, Section, Fields, vars
<1>12. QED
  BY <1>1, <1>2, <1>3, <1>4, <1>5, <1>6, <1>7, <1>8, <1>9, <1>10, <1>11
     DEF Next, HandleAnError, Callback

LEMMA Inductive == Spec => []IInv
BY InitInv, StepInv, PTL DEF Spec

(* The type invariant of the handler. *)
THEOREM TypeCorrect == Spec => []TypeOK
<1>1. IInv => TypeOK
  BY DEF IInv
<1> QED
  BY <1>1, Inductive, PTL

(* Mutual exclusion: nobody is inside without the mutex, and only a callback *)
(* that threw leaves it locked.                                              *)
THEOREM LockGoesBack == Spec => []LockIsGivenBack
<1>1. IInv => LockIsGivenBack
  BY DEF IInv
<1> QED
  BY <1>1, Inductive, PTL

(* A callback never sees the fields of two errors. *)
THEOREM ReportsAreWhole == Spec => []ReportIsWhole
<1>1. IInv => ReportIsWhole
  BY DEF IInv, TypeOK, StoredStays, ReportIsWhole, Section, Fields
<1> QED
  BY <1>1, Inductive, PTL
-----------------------------------------------------------------------------
(* How many steps a thread is away from the end of the report it handles, if *)
(* its callback returns.                                                    *)
Rank(t) ==
  CASE at[t] = "lock"     -> 8
    [] at[t] = "store"    -> 7 - stored[t]
    [] at[t] = "check"    -> 4
    [] at[t] = "call"     -> 3
    [] at[t] = "callback" -> 2
    [] at[t] = "unlock"   -> 1
    [] OTHER              -> 0

(* A step of a thread in HandleAnError, or of its callback, brings it nearer *)
(* to the end, and no step of anybody else sets it back.                    *)
RankShrinks ==
  [][\A t \in Threads :
       at[t] # "idle" =>
         /\ UNCHANGED <<at[t], stored[t]>> \/ Rank(t)' < Rank(t)
         /\ HandleAnError(t) \/ Callback(t) => Rank(t)' < Rank(t)]_vars

(* A thread that waits for the mutex can have it, or waits for one that is  *)
(* on its way to give it back, unless the handler is blocked for good.      *)
OwnerIsInside ==
  Blocked \/ mutex = Free \/ \E u \in Threads : mutex = u /\ at[u] \in Section

(* What EveryReportEnds rests on, with fairness: a report takes at most 8    *)
(* steps of its thread, whatever the others do; a waiting thread is passed  *)
(* over at most as often as there are other reports.                        *)
THEOREM ReportsGetOn == Spec => RankShrinks
<1> DEFINE Nearer(t) == Rank(t)' < Rank(t)
<1>1. ASSUME IInv, NEW t \in Threads, at[t] # "idle", Next
      PROVE  /\ UNCHANGED <<at[t], stored[t]>> \/ Nearer(t)
             /\ HandleAnError(t) \/ Callback(t) => Nearer(t)
  <2>0. /\ at[t] = "store" => stored[t] \in 0 .. 2
        /\ at[t] \in Section \cup {"idle", "lock", "relock"}
    BY <1>1 DEF IInv, TypeOK, StoredStays
  <2>1. CASE HandleAnError(t) \/ Callback(t)
    <3>1. Nearer(t)
      BY <1>1, <2>0, <2>1
         DEF HandleAnError, Callback, Lock, Store, Check, Call, Unlock, Return, Throw,
             Reenter, Goes, Rank, IInv, TypeOK, Section
    <3> QED
      BY <3>1
  <2>2. CASE ~(HandleAnError(t) \/ Callback(t))
    <3>1. PICK u \in Threads :
            \/ \E r \in Reports : Raise(u, r)
            \/ HandleAnError(u) \/ Callback(u)
            \/ \E cb \in Callbacks \cup {NoCallback} : SetErrorCallback(u, cb)
      BY <1>1 DEF Next
    <3>2. UNCHANGED <<at[t], stored[t]>>
      <4>1. CASE \E cb \in Callbacks \cup {NoCallback} : SetErrorCallback(u, cb)
        BY <4>1 DEF SetErrorCallback
      <4>2. CASE ~\E cb \in Callbacks \cup {NoCallback} : SetErrorCallback(u, cb)
        <5>1. u # t
          BY <1>1, <2>2, <3>1, <4>2 DEF Raise, Goes
        <5> QED
          BY <1>1, <3>1, <4>2, <5>1
             DEF HandleAnError, Callback, Raise, Lock, Store, Check, Call, Unlock, Return,
                 Throw, Reenter, Goes, IInv, TypeOK
      <4> QED
        BY <4>1, <4>2
    <3> QED
      BY <2>2, <3>2
  <2> QED
    BY <2>1, <2>2
<1>2. IInv /\ [Next]_vars =>
        [\A t \in Threads :
           at[t] # "idle" =>
             /\ UNCHANGED <<at[t], stored[t]>> \/ Rank(t)' < Rank(t)
             /\ HandleAnError(t) \/ Callback(t) => Rank(t)' < Rank(t)]_vars
  BY <1>1
<1> QED
  BY <1>2, Inductive, PTL DEF Spec, RankShrinks

(* ... and a thread that waits does not wait for nobody: the mutex is free or *)
(* its owner is inside, unless what makes every report hang has happened.   *)
THEOREM NobodyWaitsInVain == Spec => []OwnerIsInside
<1>1. IInv => OwnerIsInside
  BY DEF IInv, TypeOK, LockIsGivenBack, OwnerIsInside, Blocked, ThrewInside
<1> QED
  BY <1>1, Inductive, PTL
=============================================================================
