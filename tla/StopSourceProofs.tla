-------------------------- MODULE StopSourceProofs --------------------------
(***************************************************************************)
(* Proofs about StopSource, for any threads, errors and signals.  IInv     *)
(* relates the flag, the error and the stop in force, separately for the   *)
(* moments when the mutex is free and for each point inside it.            *)
(***************************************************************************)
EXTENDS StopSource, TLAPS

Inside == {"request_flag", "request_error", "reset_flag"}
Polling == {"stopping", "poll_lock"}

\* One thread is inside the mutex, and m_requested tells whether a stop is in
\* force.
LockInv ==
  /\ \A p \in Threads : pc[p] \in Inside <=> owner = p
  /\ requested = 0 <=> asked = Ok

\* Between two steps of request_stop and of reset.
HalfwayInv ==
  \A p \in Threads :
    /\ pc[p] \in {"request_flag", "request_error"} => arg \in Errors
    /\ pc[p] = "request_flag" => /\ requested # -1
                                 /\ asked \in {Ok, Cancelled}
                                 /\ cancel_error \in {Ok, Cancelled}
    /\ pc[p] = "request_error" => asked = arg
    /\ pc[p] = "reset_flag" => cancel_error = Ok

\* While the mutex is free: the error, if any, is that of the stop in force; a
\* poll that raced with a reset may have left Cancelled behind.
FreeInv ==
  owner = None =>
    /\ requested = 0 => cancel_error \in {Ok, Cancelled}
    /\ requested # 0 /\ cancel_error # Ok => cancel_error = asked
    /\ cancel_error = Ok => requested # -1 /\ asked \in {Ok, Cancelled}

\* A poll in progress has seen the stop now in force and an earlier one.
WindowInv ==
  \A p \in Threads :
    pc[p] \in Polling => /\ result[p] = None
                         /\ asked \in window[p]
                         /\ window[p] # {Ok}

IInv == TypeOK /\ LockInv /\ HalfwayInv /\ FreeInv /\ WindowInv /\ PollIsTimely

-----------------------------------------------------------------------------
\* A new source has no stop, no error and no caller.
LEMMA InitIInv == Init => IInv
BY StopAssumption DEF StopAssumption, Init, IInv, TypeOK, LockInv, HalfwayInv, FreeInv,
   WindowInv, PollIsTimely, Inside, Polling

\* Every step of the source and of its callers keeps the types.
LEMMA TypeOKStep == ASSUME IInv, [Next]_vars PROVE TypeOK'
<1> USE StopAssumption DEF StopAssumption, IInv, TypeOK, LockInv, Inside, impl, Goto, Lock, Ask, HalfwayInv
<1>1. ASSUME NEW p \in Threads, NEW error \in Errors, RequestBegin(p, error) PROVE TypeOK'
  BY <1>1 DEF RequestBegin
<1>2. ASSUME NEW p \in Threads, RequestFlag(p) PROVE TypeOK'
  BY <1>2 DEF RequestFlag
<1>3. ASSUME NEW p \in Threads, RequestError(p) PROVE TypeOK'
  BY <1>3 DEF RequestError
<1>4. ASSUME NEW p \in Threads, ResetError(p) PROVE TypeOK'
  BY <1>4 DEF ResetError
<1>5. ASSUME NEW p \in Threads, ResetFlag(p) PROVE TypeOK'
  BY <1>5 DEF ResetFlag, ClearFlag
<1>6. ASSUME NEW p \in Threads, IsStopRequested(p) PROVE TypeOK'
  BY <1>6 DEF IsStopRequested
<1>7. ASSUME NEW p \in Threads, PollLoad(p) PROVE TypeOK'
  BY <1>7 DEF PollLoad
<1>8. ASSUME NEW p \in Threads, PollReason(p) PROVE TypeOK'
  BY <1>8 DEF PollReason, Reason
<1>9. ASSUME NEW signum \in Signals, RequestStopFromSignal(signum) PROVE TypeOK'
  BY <1>9 DEF RequestStopFromSignal
<1>10. CASE UNCHANGED vars
  BY <1>10 DEF vars
<1> QED
  BY <1>1, <1>2, <1>3, <1>4, <1>5, <1>6, <1>7, <1>8, <1>9, <1>10 DEF Next

\* The mutex is taken and released with the pc, and the flag changes with the stop
\* in force.
LEMMA LockStep == ASSUME IInv, [Next]_vars PROVE LockInv'
<1> USE StopAssumption DEF StopAssumption, IInv, TypeOK, LockInv, Inside, impl, Goto, Lock, Ask, HalfwayInv
<1>1. ASSUME NEW p \in Threads, NEW error \in Errors, RequestBegin(p, error) PROVE LockInv'
  BY <1>1 DEF RequestBegin
<1>2. ASSUME NEW p \in Threads, RequestFlag(p) PROVE LockInv'
  BY <1>2 DEF RequestFlag
<1>3. ASSUME NEW p \in Threads, RequestError(p) PROVE LockInv'
  BY <1>3 DEF RequestError
<1>4. ASSUME NEW p \in Threads, ResetError(p) PROVE LockInv'
  BY <1>4 DEF ResetError
<1>5. ASSUME NEW p \in Threads, ResetFlag(p) PROVE LockInv'
  BY <1>5 DEF ResetFlag, ClearFlag
<1>6. ASSUME NEW p \in Threads, IsStopRequested(p) PROVE LockInv'
  BY <1>6 DEF IsStopRequested
<1>7. ASSUME NEW p \in Threads, PollLoad(p) PROVE LockInv'
  BY <1>7 DEF PollLoad
<1>8. ASSUME NEW p \in Threads, PollReason(p) PROVE LockInv'
  BY <1>8 DEF PollReason, Reason
<1>9. ASSUME NEW signum \in Signals, RequestStopFromSignal(signum) PROVE LockInv'
  BY <1>9 DEF RequestStopFromSignal
<1>10. CASE UNCHANGED vars
  BY <1>10 DEF vars
<1> QED
  BY <1>1, <1>2, <1>3, <1>4, <1>5, <1>6, <1>7, <1>8, <1>9, <1>10 DEF Next

\* What a thread inside the mutex has found or done holds until its next step.
LEMMA HalfwayStep == ASSUME IInv, [Next]_vars PROVE HalfwayInv'
<1> USE StopAssumption DEF StopAssumption, IInv, TypeOK, LockInv, Inside, impl, Goto, Lock, Ask, HalfwayInv, FreeInv, Reason, ClearFlag, MustRequest
<1>1. ASSUME NEW p \in Threads, NEW error \in Errors, RequestBegin(p, error) PROVE HalfwayInv'
  BY <1>1 DEF RequestBegin
<1>2. ASSUME NEW p \in Threads, RequestFlag(p) PROVE HalfwayInv'
  BY <1>2 DEF RequestFlag
<1>3. ASSUME NEW p \in Threads, RequestError(p) PROVE HalfwayInv'
  BY <1>3 DEF RequestError
<1>4. ASSUME NEW p \in Threads, ResetError(p) PROVE HalfwayInv'
  BY <1>4 DEF ResetError
<1>5. ASSUME NEW p \in Threads, ResetFlag(p) PROVE HalfwayInv'
  BY <1>5 DEF ResetFlag, ClearFlag
<1>6. ASSUME NEW p \in Threads, IsStopRequested(p) PROVE HalfwayInv'
  BY <1>6 DEF IsStopRequested
<1>7. ASSUME NEW p \in Threads, PollLoad(p) PROVE HalfwayInv'
  BY <1>7 DEF PollLoad
<1>8. ASSUME NEW p \in Threads, PollReason(p) PROVE HalfwayInv'
  BY <1>8 DEF PollReason, Reason
<1>9. ASSUME NEW signum \in Signals, RequestStopFromSignal(signum) PROVE HalfwayInv'
  BY <1>9 DEF RequestStopFromSignal
<1>10. CASE UNCHANGED vars
  BY <1>10 DEF vars
<1> QED
  BY <1>1, <1>2, <1>3, <1>4, <1>5, <1>6, <1>7, <1>8, <1>9, <1>10 DEF Next

\* Each critical section ends with the error of the stop in force, or none.
LEMMA FreeStep == ASSUME IInv, [Next]_vars PROVE FreeInv'
<1> USE StopAssumption DEF StopAssumption, IInv, TypeOK, LockInv, Inside, impl, Goto, Lock, Ask, HalfwayInv, FreeInv, MustRequest
<1>1. ASSUME NEW p \in Threads, NEW error \in Errors, RequestBegin(p, error) PROVE FreeInv'
  BY <1>1 DEF RequestBegin
<1>2. ASSUME NEW p \in Threads, RequestFlag(p) PROVE FreeInv'
  BY <1>2 DEF RequestFlag
<1>3. ASSUME NEW p \in Threads, RequestError(p) PROVE FreeInv'
  BY <1>3 DEF RequestError
<1>4. ASSUME NEW p \in Threads, ResetError(p) PROVE FreeInv'
  BY <1>4 DEF ResetError
<1>5. ASSUME NEW p \in Threads, ResetFlag(p) PROVE FreeInv'
  BY <1>5 DEF ResetFlag, ClearFlag
<1>6. ASSUME NEW p \in Threads, IsStopRequested(p) PROVE FreeInv'
  BY <1>6 DEF IsStopRequested
<1>7. ASSUME NEW p \in Threads, PollLoad(p) PROVE FreeInv'
  BY <1>7 DEF PollLoad
<1>8. ASSUME NEW p \in Threads, PollReason(p) PROVE FreeInv'
  BY <1>8 DEF PollReason, Reason
<1>9. ASSUME NEW signum \in Signals, RequestStopFromSignal(signum) PROVE FreeInv'
  BY <1>9 DEF RequestStopFromSignal
<1>10. CASE UNCHANGED vars
  BY <1>10 DEF vars
<1> QED
  BY <1>1, <1>2, <1>3, <1>4, <1>5, <1>6, <1>7, <1>8, <1>9, <1>10 DEF Next

\* A poll begins with the stop in force and sees each change of it.
LEMMA WindowStep == ASSUME IInv, [Next]_vars PROVE WindowInv'
<1> USE StopAssumption DEF StopAssumption, IInv, TypeOK, LockInv, Inside, impl, Goto, Lock, Ask, WindowInv, Polling
<1>1. ASSUME NEW p \in Threads, NEW error \in Errors, RequestBegin(p, error) PROVE WindowInv'
  BY <1>1 DEF RequestBegin
<1>2. ASSUME NEW p \in Threads, RequestFlag(p) PROVE WindowInv'
  BY <1>2 DEF RequestFlag
<1>3. ASSUME NEW p \in Threads, RequestError(p) PROVE WindowInv'
  BY <1>3 DEF RequestError
<1>4. ASSUME NEW p \in Threads, ResetError(p) PROVE WindowInv'
  BY <1>4 DEF ResetError
<1>5. ASSUME NEW p \in Threads, ResetFlag(p) PROVE WindowInv'
  BY <1>5 DEF ResetFlag, ClearFlag
<1>6. ASSUME NEW p \in Threads, IsStopRequested(p) PROVE WindowInv'
  BY <1>6 DEF IsStopRequested
<1>7. ASSUME NEW p \in Threads, PollLoad(p) PROVE WindowInv'
  BY <1>7 DEF PollLoad
<1>8. ASSUME NEW p \in Threads, PollReason(p) PROVE WindowInv'
  BY <1>8 DEF PollReason, Reason
<1>9. ASSUME NEW signum \in Signals, RequestStopFromSignal(signum) PROVE WindowInv'
  BY <1>9 DEF RequestStopFromSignal
<1>10. CASE UNCHANGED vars
  BY <1>10 DEF vars
<1> QED
  BY <1>1, <1>2, <1>3, <1>4, <1>5, <1>6, <1>7, <1>8, <1>9, <1>10 DEF Next

\* A poll ends with an answer from its window.
LEMMA TimelyStep == ASSUME IInv, [Next]_vars PROVE PollIsTimely'
<1> USE StopAssumption DEF StopAssumption, IInv, TypeOK, LockInv, Inside, impl, Goto, Lock, Ask, HalfwayInv, FreeInv, WindowInv, PollIsTimely, Polling
<1>1. ASSUME NEW p \in Threads, NEW error \in Errors, RequestBegin(p, error) PROVE PollIsTimely'
  BY <1>1 DEF RequestBegin
<1>2. ASSUME NEW p \in Threads, RequestFlag(p) PROVE PollIsTimely'
  BY <1>2 DEF RequestFlag
<1>3. ASSUME NEW p \in Threads, RequestError(p) PROVE PollIsTimely'
  BY <1>3 DEF RequestError
<1>4. ASSUME NEW p \in Threads, ResetError(p) PROVE PollIsTimely'
  BY <1>4 DEF ResetError
<1>5. ASSUME NEW p \in Threads, ResetFlag(p) PROVE PollIsTimely'
  BY <1>5 DEF ResetFlag, ClearFlag
<1>6. ASSUME NEW p \in Threads, IsStopRequested(p) PROVE PollIsTimely'
  BY <1>6 DEF IsStopRequested
<1>7. ASSUME NEW p \in Threads, PollLoad(p) PROVE PollIsTimely'
  BY <1>7 DEF PollLoad
<1>8. ASSUME NEW p \in Threads, PollReason(p) PROVE PollIsTimely'
  BY <1>8 DEF PollReason, Reason
<1>9. ASSUME NEW signum \in Signals, RequestStopFromSignal(signum) PROVE PollIsTimely'
  BY <1>9 DEF RequestStopFromSignal
<1>10. CASE UNCHANGED vars
  BY <1>10 DEF vars
<1> QED
  BY <1>1, <1>2, <1>3, <1>4, <1>5, <1>6, <1>7, <1>8, <1>9, <1>10 DEF Next

\* IInv holds throughout.
THEOREM Invariance == Spec => []IInv
<1>1. IInv /\ [Next]_vars => IInv'
  BY TypeOKStep, LockStep, HalfwayStep, FreeStep, WindowStep, TimelyStep DEF IInv
<1> QED
  BY InitIInv, <1>1, PTL DEF Spec

\* The source and the tokens keep their types.
THEOREM TypeCorrect == Spec => []TypeOK
<1>1. IInv => TypeOK
  BY DEF IInv
<1> QED
  BY Invariance, <1>1, PTL

\* The DCHECK_GE of poll never fails.
THEOREM PollNeverAborts == Spec => []NoAbort
<1>1. IInv => NoAbort
  BY StopAssumption DEF StopAssumption, IInv, TypeOK, FreeInv, NoAbort
<1> QED
  BY Invariance, <1>1, PTL

\* The error reported for a stop is that of the first request since the reset.
THEOREM FirstErrorIsKept == Spec => []FirstReasonWins
<1>1. IInv => FirstReasonWins
  BY DEF IInv, FreeInv, FirstReasonWins
<1> QED
  BY Invariance, <1>1, PTL

\* A poll answers for a moment of its call.
THEOREM PollsAreTimely == Spec => []PollIsTimely
<1>1. IInv => PollIsTimely
  BY DEF IInv
<1> QED
  BY Invariance, <1>1, PTL
=============================================================================
