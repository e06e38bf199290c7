----------------------------- MODULE StopSource -----------------------------
(***************************************************************************)
(* arrow::StopSource and arrow::StopToken (src/ArrowThreadPool/cancel.cpp):*)
(* threads request a stop with an error, reset the source and poll its     *)
(* token.  m_mutex orders request_stop, reset and the second half of poll, *)
(* but the atomic m_requested is also read and written outside it: by the  *)
(* first half of poll, by is_stop_requested and by the signal handler.     *)
(* Each access to m_requested is therefore a step of its own.              *)
(***************************************************************************)
EXTENDS Integers

CONSTANTS
  Threads,
  Errors,     \* the Status values given to request_stop
  Signals,    \* the signal numbers given to request_stop_from_signal
  Cancelled,  \* Status::make_cancelled("Operation Cancelled")
  Ok,         \* Status::make_ok()
  None

ASSUME StopAssumption ==
  /\ Cancelled \in Errors
  /\ Ok \notin Errors                \* DCHECK_NOT_OK(error)
  /\ None \notin Threads \cup Errors \cup {Ok}
  /\ Signals \subseteq Nat \ {0}

VARIABLES
  requested,     \* m_requested: 0, -1 for request_stop, or a signal number
  cancel_error,  \* m_cancel_error
  owner,         \* who holds m_mutex
  pc,            \* the next step of each thread
  arg,           \* the argument of the request_stop inside the mutex
  asked,         \* history: the stop in force, or Ok
  result,        \* what its last poll returned, None while it is polling
  window         \* history: the values of `asked' during that poll and, for a
                 \* worker, since its is_stop_requested

impl == <<requested, cancel_error>>
vars == <<impl, owner, pc, arg, asked, result, window>>

Init ==
  /\ requested = 0 /\ cancel_error = Ok
  /\ owner = None
  /\ pc = [p \in Threads |-> "idle"]
  /\ arg = None
  /\ asked = Ok
  /\ result = [p \in Threads |-> None]
  /\ window = [p \in Threads |-> {}]

-----------------------------------------------------------------------------
(* Helpers *)

Goto(p, label) == pc' = [pc EXCEPT ![p] = label]

\* The mutex is taken where a critical section begins.
Lock(p) == owner = None /\ owner' = p

\* The stop in force becomes e; every poll in progress sees it.
Ask(e) ==
  /\ asked' = e
  /\ window' = [p \in Threads |->
                  IF pc[p] \in {"stopping", "poll_lock"}
                  THEN window[p] \cup {e} ELSE window[p]]

-----------------------------------------------------------------------------
(* request_stop(error) *)

\* An earlier stop is kept: request_stop then changes nothing and returns.
MustRequestMutant == TRUE
MustRequest == requested = 0

RequestBegin(p, error) ==
  /\ pc[p] = "idle"
  /\ MustRequest
  /\ Lock(p)
  /\ arg' = error
  /\ Goto(p, "request_flag")
  /\ UNCHANGED <<impl, asked, result, window>>

\* A signal that came since the test counts as coming after this request.
RequestFlag(p) ==
  /\ pc[p] = "request_flag"
  /\ requested' = -1
  /\ Ask(IF asked \in {Ok, Cancelled} THEN arg ELSE asked)
  /\ Goto(p, "request_error")
  /\ UNCHANGED <<cancel_error, owner, arg, result>>

RequestError(p) ==
  /\ pc[p] = "request_error"
  /\ cancel_error' = arg
  /\ owner' = None /\ arg' = None
  /\ Goto(p, "idle")
  /\ UNCHANGED <<requested, asked, result, window>>

\* request_stop_from_signal(signum), without the mutex
RequestStopFromSignal(signum) ==
  /\ requested' = signum
  /\ Ask(IF requested = 0 THEN Cancelled ELSE asked)
  /\ UNCHANGED <<cancel_error, owner, pc, arg, result>>

-----------------------------------------------------------------------------
(* reset *)

ResetError(p) ==
  /\ pc[p] = "idle"
  /\ Lock(p)
  /\ cancel_error' = Ok
  /\ Goto(p, "reset_flag")
  /\ UNCHANGED <<requested, arg, asked, result, window>>

ClearFlagMutant == requested' = IF requested > 0 THEN 0 ELSE requested
ClearFlag == requested' = 0

ResetFlag(p) ==
  /\ pc[p] = "reset_flag"
  /\ ClearFlag
  /\ Ask(Ok)
  /\ owner' = None
  /\ Goto(p, "idle")
  /\ UNCHANGED <<cancel_error, arg, result>>

-----------------------------------------------------------------------------
(* is_stop_requested and poll *)

\* worker_loop asks is_stop_requested; only if it says so a poll follows, for the
\* argument of the stop callback, and the source may be reset before it.
IsStopRequested(p) ==
  /\ pc[p] = "idle"
  /\ requested # 0
  /\ window' = [window EXCEPT ![p] = {asked}]
  /\ result' = [result EXCEPT ![p] = None]
  /\ Goto(p, "stopping")
  /\ UNCHANGED <<impl, owner, arg, asked>>

\* The load outside the mutex; with no stop requested poll is over.
PollLoad(p) ==
  /\ pc[p] \in {"idle", "stopping"}
  /\ window' = [window EXCEPT ![p] = IF pc[p] = "idle" THEN {asked} ELSE @]
  /\ result' = [result EXCEPT ![p] = IF requested = 0 THEN Ok ELSE None]
  /\ Goto(p, IF requested = 0 THEN "idle" ELSE "poll_lock")
  /\ UNCHANGED <<impl, owner, arg, asked>>

\* What poll returns, and leaves in m_cancel_error, once it has the mutex.
ReasonAlwaysMutant == Cancelled
Reason == IF cancel_error = Ok THEN Cancelled ELSE cancel_error

PollReason(p) ==
  /\ pc[p] = "poll_lock"
  /\ owner = None
  /\ cancel_error' = Reason
  /\ result' = [result EXCEPT ![p] = Reason]
  /\ Goto(p, "idle")
  /\ UNCHANGED <<requested, owner, arg, asked, window>>

-----------------------------------------------------------------------------
Next ==
  \/ \E p \in Threads :
       \/ \E error \in Errors : RequestBegin(p, error)
       \/ RequestFlag(p) \/ RequestError(p)
       \/ ResetError(p) \/ ResetFlag(p)
       \/ IsStopRequested(p) \/ PollLoad(p) \/ PollReason(p)
  \/ \E signum \in Signals : RequestStopFromSignal(signum)

Spec == Init /\ [][Next]_vars

-----------------------------------------------------------------------------
(* What a token is relied on for *)

\* Every variable holds a value of its kind.
TypeOK ==
  /\ requested \in {-1, 0} \cup Signals
  /\ cancel_error \in Errors \cup {Ok}
  /\ owner \in Threads \cup {None}
  /\ pc \in [Threads -> {"idle", "request_flag", "request_error", "reset_flag",
                         "stopping", "poll_lock"}]
  /\ arg \in Errors \cup {None}
  /\ asked \in Errors \cup {Ok}
  /\ result \in [Threads -> Errors \cup {Ok, None}]
  /\ window \in [Threads -> SUBSET (Errors \cup {Ok})]

\* poll finds no error only after a signal or a reset: DCHECK_GE(signum, 0)
\* never aborts the process, although the flag is set before the error and the
\* error is cleared before the flag.
NoAbort ==
  \A p \in Threads :
    pc[p] = "poll_lock" /\ owner = None /\ cancel_error = Ok => requested >= 0

\* The error reported for a stop is that of the first request since the reset,
\* whatever signals and further requests come in between.
FirstReasonWins ==
  owner = None /\ requested # 0 /\ cancel_error # Ok => cancel_error = asked

\* poll answers for a moment of its call: it returns Ok only if at some moment
\* no stop was in force, an error only if a stop was, and that stop's error
\* unless a reset came in between (then it may be the generic Cancelled).
PollIsTimely ==
  \A p \in Threads :
    \/ result[p] \in window[p] \cup {None}
    \/ result[p] = Cancelled /\ Ok \in window[p] /\ window[p] # {Ok}
=============================================================================
