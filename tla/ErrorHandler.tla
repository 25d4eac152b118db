---------------------------- MODULE ErrorHandler ----------------------------
(***************************************************************************)
(* The one error handler of a program, in a build with THREADSAFE_MODE on  *)
(* POSIX: EGTS::HandleAnError, called by several threads at once, and      *)
(* EGTS::SetErrorCallback, which takes no lock. The callback is the        *)
(* program's own: it reads the three fields of the error through the       *)
(* pointer it gets; some callbacks throw, and some use the library in a    *)
(* way that reports an error again. The mutex is of the default kind: its  *)
(* owner waits for ever when it locks it once more.                        *)
(***************************************************************************)
EXTENDS Naturals

CONSTANTS Threads,
          Reports,          \* the calls of HandleAnError, one for each error
          Callbacks,
          Throwing,         \* the callbacks that may throw an exception
          Reentering,       \* the callbacks that may report an error
          NoCallback, Free, NoReport

ASSUME CallbacksAssumption ==
  /\ NoCallback \notin Callbacks
  /\ Throwing \subseteq Callbacks /\ Reentering \subseteq Callbacks
ASSUME FreeAssumption == Free \notin Threads
ASSUME NoReportAssumption == NoReport \notin Reports

VARIABLES OnError,          \* error_handler.OnError
          error,            \* error_handler.error: whose code, sender, message
          mutex,            \* the thread that has locked it, or Free
          at,               \* what a thread does next in HandleAnError
          report,           \* the error a thread handles, or handled last
          stored,           \* how many fields it has stored
          called,           \* the callback it called last
          raised,           \* the reports that were made
          crashed           \* a call through a null pointer

vars == <<OnError, error, mutex, at, report, stored, called, raised, crashed>>

Fields == 1 .. 3            \* code, sender, message, in the order of the code
Section == {"store", "check", "call", "callback", "unlock"}

TypeOK ==
  /\ OnError \in Callbacks \cup {NoCallback}
  /\ error \in [Fields -> Reports \cup {NoReport}]
  /\ mutex \in Threads \cup {Free}
  /\ at \in [Threads -> Section \cup {"idle", "lock", "relock"}]
  /\ report \in [Threads -> Reports \cup {NoReport}]
  /\ stored \in [Threads -> 0 .. 3]
  /\ called \in [Threads -> Callbacks \cup {NoCallback}]
  /\ raised \subseteq Reports
  /\ crashed \in BOOLEAN

Init ==
  /\ OnError = NoCallback /\ error = [ f \in Fields |-> NoReport ]
  /\ mutex = Free
  /\ at = [ t \in Threads |-> "idle" ]
  /\ report = [ t \in Threads |-> NoReport ]
  /\ stored = [ t \in Threads |-> 0 ]
  /\ called = [ t \in Threads |-> NoCallback ]
  /\ raised = {} /\ crashed = FALSE

Goes(t, from, to) == ~crashed /\ at[t] = from /\ at' = [ at EXCEPT ![t] = to ]

(* HandleAnError is called. *)
Raise(t, r) ==
  /\ r \notin raised
  /\ Goes(t, "idle", "lock")
  /\ raised' = raised \cup {r}
  /\ report' = [ report EXCEPT ![t] = r ]
  /\ stored' = [ stored EXCEPT ![t] = 0 ]
  /\ UNCHANGED <<OnError, error, mutex, called, crashed>>

(* Faulty: the build without THREADSAFE_MODE, used by several threads. *)
LockNothing(t) ==
  /\ Goes(t, "lock", "store")
  /\ mutex' = t
  /\ called' = [ called EXCEPT ![t] = NoCallback ]
  /\ UNCHANGED <<OnError, error, report, stored, raised, crashed>>

Lock(t) ==
  /\ mutex = Free
  /\ Goes(t, "lock", "store")
  /\ mutex' = t
  /\ called' = [ called EXCEPT ![t] = NoCallback ]
  /\ UNCHANGED <<OnError, error, report, stored, raised, crashed>>

(* Faulty: one field more than there are. *)
StoreBeyond(t) ==
  /\ Goes(t, "store", IF stored[t] = 4 THEN "check" ELSE "store")
  /\ error' = [ error EXCEPT ![stored[t] + 1] = report[t] ]
  /\ stored' = [ stored EXCEPT ![t] = @ + 1 ]
  /\ UNCHANGED <<OnError, mutex, report, called, raised, crashed>>

(* code, sender and message are copied, one after the other. *)
Store(t) ==
  /\ Goes(t, "store", IF stored[t] = 2 THEN "check" ELSE "store")
  /\ error' = [ error EXCEPT ![stored[t] + 1] = report[t] ]
  /\ stored' = [ stored EXCEPT ![t] = @ + 1 ]
  /\ UNCHANGED <<OnError, mutex, report, called, raised, crashed>>

(* Faulty: no callback, no need to go on. *)
CheckAndLeave(t) ==
  /\ Goes(t, "check", IF OnError = NoCallback THEN "idle" ELSE "call")
  /\ UNCHANGED <<OnError, error, mutex, report, stored, called, raised, crashed>>

(* if ( error_handler.OnError ) *)
Check(t) ==
  /\ Goes(t, "check", IF OnError = NoCallback THEN "unlock" ELSE "call")
  /\ UNCHANGED <<OnError, error, mutex, report, stored, called, raised, crashed>>

(* OnError is read once more, and what it is now is called. *)
Call(t) ==
  /\ Goes(t, "call", "callback")
  /\ called' = [ called EXCEPT ![t] = OnError ]
  /\ crashed' = (OnError = NoCallback)
  /\ UNCHANGED <<OnError, error, mutex, report, stored, raised>>

Return(t) ==
  /\ Goes(t, "callback", "unlock")
  /\ UNCHANGED <<OnError, error, mutex, report, stored, called, raised, crashed>>

(* Nothing catches the exception on its way out of HandleAnError. *)
Throw(t) ==
  /\ called[t] \in Throwing
  /\ Goes(t, "callback", "idle")
  /\ UNCHANGED <<OnError, error, mutex, report, stored, called, raised, crashed>>

(* HandleAnError is called by the callback: it waits for its own mutex. *)
Reenter(t, r) ==
  /\ called[t] \in Reentering /\ r \notin raised
  /\ Goes(t, "callback", "relock")
  /\ raised' = raised \cup {r}
  /\ UNCHANGED <<OnError, error, mutex, report, stored, called, crashed>>

(* Faulty: the unlock is forgotten. *)
UnlockNothing(t) ==
  /\ Goes(t, "unlock", "idle")
  /\ UNCHANGED <<OnError, error, mutex, report, stored, called, raised, crashed>>

Unlock(t) ==
  /\ Goes(t, "unlock", "idle")
  /\ mutex' = Free
  /\ UNCHANGED <<OnError, error, report, stored, called, raised, crashed>>

(* By a thread outside the library, or by a callback: no lock is taken. *)
SetErrorCallback(t, cb) ==
  /\ ~crashed /\ at[t] \in {"idle", "callback"}
  /\ OnError' = cb
  /\ UNCHANGED <<error, mutex, at, report, stored, called, raised, crashed>>

HandleAnError(t) ==
  Lock(t) \/ Store(t) \/ Check(t) \/ Call(t) \/ Unlock(t)

Callback(t) ==
  \/ Return(t) \/ Throw(t)
  \/ \E r \in Reports : Reenter(t, r)

Next ==
  \E t \in Threads :
    \/ \E r \in Reports : Raise(t, r)
    \/ HandleAnError(t) \/ Callback(t)
    \/ \E cb \in Callbacks \cup {NoCallback} : SetErrorCallback(t, cb)

Spec == Init /\ [][Next]_vars

(* A thread that can go on in HandleAnError, or in a callback, does: the     *)
(* scheduler runs it, and no callback takes for ever.                        *)
FairSpec == Spec /\ \A t \in Threads : WF_vars(HandleAnError(t)) /\ WF_vars(Callback(t))
-----------------------------------------------------------------------------
(* The error that a callback looks at is the one it was called for: as long  *)
(* as the callback runs, none of the three fields belongs to an error of     *)
(* another thread.                                                           *)
ReportIsWhole ==
  \A t \in Threads :
    at[t] = "callback" => error = [ f \in Fields |-> report[t] ]

(* The mutex is held by the thread that handles an error and by nobody else: *)
(* only a callback that threw leaves it behind. A callback that reports an   *)
(* error waits for its own thread.                                           *)
LockIsGivenBack ==
  \A t \in Threads :
    /\ at[t] \in Section \cup {"relock"} => mutex = t
    /\ mutex = t => at[t] \in Section \cup {"relock"} \/ called[t] \in Throwing

(* The mutex stayed locked behind a callback that threw. *)
ThrewInside(t) == mutex = t /\ at[t] \notin Section /\ called[t] \in Throwing
Blocked == crashed \/ \E t \in Threads : at[t] = "relock" \/ ThrewInside(t)

(* Every HandleAnError returns, whatever the other threads do, unless some   *)
(* callback threw or reported an error itself (from then on every error      *)
(* report of the program hangs) or a null pointer was called.                *)
EveryReportEnds == \A t \in Threads : at[t] = "lock" ~> (at[t] = "idle" \/ Blocked)

(* No null pointer is called: what the check in front of the call is for.    *)
NullNeverCalled == ~crashed
=============================================================================
