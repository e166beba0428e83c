------------------------- MODULE SystemCallsProofs -------------------------
(***************************************************************************)
(* Theorems about SystemCalls, for any calls, any commands and any system  *)
(* calls failing.                                                          *)
(***************************************************************************)
EXTENDS SystemCalls, SequenceTheorems, TLAPS

(* Where the process is in a call fits the child it has, the descriptors   *)
(* that are open, and what descriptor 1 refers to.                         *)
CallInv ==
  /\ pc \in {"open", "dup2", "close", "fork", "waitpid"} => k > 0 /\ jobs[k].result = "none"
  /\ pc \in {"open", "dup2", "close", "fork"} => jobs[k].child = "none"
  /\ pc # "aborted" => fds = IF pc \in {"dup2", "close"} THEN 1 ELSE 0
  /\ pc \in {"close", "fork"} /\ Redirects => stdout = req.outputfile

(* What the properties ask of one record. *)
JobInv(j) ==
  /\ j.result = "true" =>
       \/ Succeeded(j.req) /\ j.child = "reaped"
       \/ j.waited = "failed" /\ j.req.fn = "do_exec_redirect"
  /\ j.result # "none" => j.child \in {"none", "reaped"} \/ j.waited = "failed"
  /\ j.req.fn = "do_exec_redirect" /\ j.child # "none" => j.out = j.req.outputfile

(* The types and the properties with what they need; inductive. *)
SystemCallsInv == TypeOK /\ CallInv /\ \A j \in 1 .. k : JobInv(jobs[j])

USE DEF Labels

-----------------------------------------------------------------------------
(* Changing the record of one call. *)
LEMMA UpdateJob ==
  ASSUME jobs \in Seq(Jobs), NEW i \in 1 .. k, NEW e \in Jobs, jobs' = [jobs EXCEPT ![i] = e]
  PROVE  /\ jobs' \in Seq(Jobs) /\ k' = k
         /\ \A j \in 1 .. k : jobs'[j] = IF j = i THEN e ELSE jobs[j]
  <1>1. [jobs EXCEPT ![i] = e] \in Seq(Jobs) /\ Len([jobs EXCEPT ![i] = e]) = Len(jobs)
    BY ExceptSeq DEF k
  <1> QED BY <1>1 DEF k

(* Inside a call the last record is the call's. *)
LEMMA CurrentJob ==
  ASSUME SystemCallsInv, pc \in {"open", "dup2", "close", "fork", "waitpid"}
  PROVE  k \in 1 .. k /\ jobs[k] \in Jobs
  BY DEF SystemCallsInv, TypeOK, CallInv, k

(* Steps that leave all records alone. *)
LEMMA SameJobs ==
  ASSUME SystemCallsInv, UNCHANGED jobs, TypeOK', CallInv'
  PROVE  SystemCallsInv'
  BY DEF SystemCallsInv, k

(* Steps that change one record to one that is as the properties ask. *)
LEMMA JobStep ==
  ASSUME SystemCallsInv, NEW i \in 1 .. k, NEW e \in Jobs, jobs' = [jobs EXCEPT ![i] = e],
         JobInv(e), UNCHANGED <<stdout, fds>>, pc' \in Labels,
         k' = k /\ (\A j \in 1 .. k : jobs'[j] = IF j = i THEN e ELSE jobs[j]) => CallInv'
  PROVE  SystemCallsInv'
  <1>1. /\ jobs' \in Seq(Jobs) /\ k' = k
        /\ \A j \in 1 .. k : jobs'[j] = IF j = i THEN e ELSE jobs[j]
    BY UpdateJob DEF SystemCallsInv, TypeOK
  <1>2. TypeOK'
    BY <1>1 DEF SystemCallsInv, TypeOK
  <1>3. \A j \in 1 .. k' : JobInv(jobs'[j])
    BY <1>1 DEF SystemCallsInv
  <1>4. (\A j \in 1 .. k : JobInv(jobs[j]))'
    BY <1>3 DEF JobInv, Succeeded
  <1> QED BY <1>1, <1>2, <1>4 DEF SystemCallsInv

-----------------------------------------------------------------------------
(* Entering a function. *)
LEMMA CallKeepsInv ==
  ASSUME SystemCallsInv, NEW r \in Requests, Call(r)
  PROVE  SystemCallsInv'
  <1> DEFINE e == [req |-> r, child |-> "none", out |-> stdout, waited |-> "no", result |-> "none"]
  <1>1. e \in Jobs
    BY SystemCallsAssumption DEF Jobs, SystemCallsInv, TypeOK
  <1>2. jobs' = Append(jobs, e) /\ jobs \in Seq(Jobs)
    BY DEF Call, SystemCallsInv, TypeOK
  <1>3. e.child = "none" /\ e.result = "none" /\ e.req = r /\ JobInv(e)
    BY DEF JobInv
  <1> HIDE DEF e
  <1>4. /\ jobs' \in Seq(Jobs) /\ k' = k + 1 /\ k \in Nat
        /\ jobs'[k + 1] = e
        /\ \A j \in 1 .. k : jobs'[j] = jobs[j]
    BY <1>1, <1>2 DEF k
  <1>5. TypeOK'
    BY <1>4 DEF Call, SystemCallsInv, TypeOK
  <1>6. CallInv'
    <2>1. /\ pc = "caller" /\ UNCHANGED <<fds, stdout>> /\ pc' \in {"open", "fork"}
          /\ pc' = "fork" => r.fn # "do_exec_redirect"
      BY DEF Call
    <2>2. fds' = 0
      BY <2>1 DEF SystemCallsInv, CallInv
    <2>3. k' > 0 /\ jobs'[k'].result = "none" /\ jobs'[k'].child = "none" /\ jobs'[k'].req = r
      BY <1>3, <1>4
    <2> QED BY <2>1, <2>2, <2>3 DEF CallInv, Redirects, req
  <1>7. \A j \in 1 .. k' : JobInv(jobs'[j])
    <2>1. \A j \in 1 .. k' : (jobs'[j] = jobs[j] /\ j \in 1 .. k) \/ jobs'[j] = e
      BY <1>4
    <2> QED BY <1>3, <2>1 DEF SystemCallsInv
  <1>8. (\A j \in 1 .. k : JobInv(jobs[j]))'
    BY <1>7 DEF JobInv, Succeeded
  <1> QED BY <1>5, <1>6, <1>8 DEF SystemCallsInv

(* fork: the child of a redirected call gets the file as its output. *)
LEMMA ForkKeepsInv ==
  ASSUME SystemCallsInv, Fork
  PROVE  SystemCallsInv'
  <1> DEFINE e == [jobs[k] EXCEPT !.child = "forked", !.out = stdout]
  <1>1. /\ k \in 1 .. k /\ jobs[k] \in Jobs /\ jobs[k].result = "none"
        /\ jobs[k].req.fn = "do_exec_redirect" => stdout = jobs[k].req.outputfile
    BY CurrentJob DEF Fork, SystemCallsInv, CallInv, Redirects, req
  <1>2. e \in Jobs /\ e.result = "none" /\ e.req = jobs[k].req /\ e.out = stdout
    BY <1>1 DEF SystemCallsInv, TypeOK, Jobs
  <1>3. jobs' = [jobs EXCEPT ![k] = e]
    BY <1>1 DEF Fork, SystemCallsInv, TypeOK, Jobs
  <1> HIDE DEF e
  <1>4. JobInv(e)
    BY <1>1, <1>2 DEF JobInv
  <1>5. k' = k /\ (\A j \in 1 .. k : jobs'[j] = IF j = k THEN e ELSE jobs[j]) => CallInv'
    BY <1>1, <1>2 DEF Fork, SystemCallsInv, CallInv
  <1> QED BY <1>1, <1>2, <1>3, <1>4, <1>5, JobStep DEF Fork

(* A call returns. *)
LEMMA ReturnKeepsInv ==
  ASSUME SystemCallsInv, pc \in {"fork", "waitpid"}, NEW e \in Jobs,
         jobs' = [jobs EXCEPT ![k] = e], pc' = "caller", UNCHANGED <<stdout, fds>>, JobInv(e)
  PROVE  SystemCallsInv'
  <1>1. k \in 1 .. k
    BY CurrentJob
  <1>2. CallInv'
    BY DEF SystemCallsInv, CallInv
  <1> QED BY <1>1, <1>2, JobStep

(* The three ways a call returns: no child, *)
LEMMA ForkFailsKeepsInv ==
  ASSUME SystemCallsInv, ForkFails
  PROVE  SystemCallsInv'
  <1> DEFINE e == [jobs[k] EXCEPT !.result = "false"]
  <1>1. k \in 1 .. k /\ jobs[k] \in Jobs /\ jobs[k].child = "none"
    BY CurrentJob DEF ForkFails, SystemCallsInv, CallInv
  <1>2. e \in Jobs /\ e.child = "none" /\ e.result = "false"
    BY <1>1 DEF Jobs
  <1>3. jobs' = [jobs EXCEPT ![k] = e]
    BY <1>1 DEF ForkFails, SystemCallsInv, TypeOK, Jobs
  <1> HIDE DEF e
  <1>4. JobInv(e)
    BY <1>2 DEF JobInv
  <1> QED BY <1>2, <1>3, <1>4, ReturnKeepsInv DEF ForkFails

(* the child's verdict, *)
LEMMA WaitpidKeepsInv ==
  ASSUME SystemCallsInv, Waitpid
  PROVE  SystemCallsInv'
  <1> DEFINE e == [jobs[k] EXCEPT !.child = "reaped", !.waited = "yes", !.result = Result(req)]
  <1>1. /\ k \in 1 .. k /\ jobs[k] \in Jobs /\ Result(req) \in {"true", "false"}
        /\ jobs[k].child = "ended" /\ JobInv(jobs[k])
    BY CurrentJob DEF Waitpid, Result, SystemCallsInv
  <1>2. /\ e \in Jobs /\ e.child = "reaped" /\ e.result = Result(req)
        /\ e.req = jobs[k].req /\ e.out = jobs[k].out
    BY <1>1 DEF Jobs
  <1>3. jobs' = [jobs EXCEPT ![k] = e]
    BY <1>1 DEF Waitpid, Reaped, SystemCallsInv, TypeOK, Jobs
  <1>4. e.result = "true" => Succeeded(e.req)
    BY <1>2 DEF Result, req
  <1> HIDE DEF e
  <1>5. JobInv(e)
    BY <1>1, <1>2, <1>4 DEF JobInv
  <1> QED BY <1>2, <1>3, <1>5, ReturnKeepsInv DEF Waitpid

(* and a failed waitpid. *)
LEMMA WaitpidFailsKeepsInv ==
  ASSUME SystemCallsInv, WaitpidFails
  PROVE  SystemCallsInv'
  <1>1. PICK b \in IF Redirects THEN {"true", "false"} ELSE {"false"} :
          jobs' = [jobs EXCEPT ![k].waited = "failed", ![k].result = b]
    BY DEF WaitpidFails
  <1> DEFINE e == [jobs[k] EXCEPT !.waited = "failed", !.result = b]
  <1>2. k \in 1 .. k /\ jobs[k] \in Jobs /\ b \in {"true", "false"} /\ JobInv(jobs[k])
    BY <1>1, CurrentJob DEF WaitpidFails, SystemCallsInv
  <1>3. /\ e \in Jobs /\ e.waited = "failed" /\ e.result = b
        /\ e.req = jobs[k].req /\ e.out = jobs[k].out /\ e.child = jobs[k].child
    BY <1>2 DEF Jobs
  <1>4. jobs' = [jobs EXCEPT ![k] = e]
    BY <1>1, <1>2 DEF SystemCallsInv, TypeOK, Jobs
  <1>5. e.result = "true" => e.req.fn = "do_exec_redirect"
    BY <1>1, <1>3 DEF Redirects, req
  <1> HIDE DEF e
  <1>6. JobInv(e)
    BY <1>2, <1>3, <1>5 DEF JobInv
  <1> QED BY <1>3, <1>4, <1>6, ReturnKeepsInv DEF WaitpidFails

-----------------------------------------------------------------------------
(* A step of a child that was forked and not waited for: it may belong to  *)
(* an earlier call, whose waitpid failed.                                  *)
LEMMA ChildKeepsInv ==
  ASSUME SystemCallsInv, NEW i \in 1 .. k, Child(i)
  PROVE  SystemCallsInv'
  <1>1. /\ jobs \in Seq(Jobs) /\ jobs[i] \in Jobs /\ jobs[i].child \in {"forked", "running"}
        /\ JobInv(jobs[i])
    BY DEF SystemCallsInv, TypeOK, Child, Exec, ExecFails, CommandEnds, k
  <1>2. PICK c \in {"running", "ended"} : jobs' = [jobs EXCEPT ![i].child = c]
    BY DEF Child, Exec, ExecFails, AfterExec, CommandEnds
  <1> DEFINE e == [jobs[i] EXCEPT !.child = c]
  <1>3. /\ e \in Jobs /\ e.req = jobs[i].req /\ e.waited = jobs[i].waited
        /\ e.result = jobs[i].result /\ e.out = jobs[i].out
    BY <1>1, <1>2 DEF Jobs
  <1>4. jobs' = [jobs EXCEPT ![i] = e]
    BY <1>1, <1>2 DEF Jobs
  <1> HIDE DEF e
  <1>5. UNCHANGED <<pc, stdout, fds>>
    BY DEF Child, Exec, ExecFails, CommandEnds
  <1>6. JobInv(e)
    BY <1>1, <1>3 DEF JobInv
  <1>7. k' = k /\ (\A j \in 1 .. k : jobs'[j] = IF j = i THEN e ELSE jobs[j]) => CallInv'
    <2> SUFFICES ASSUME k' = k, \A j \in 1 .. k : jobs'[j] = IF j = i THEN e ELSE jobs[j]
                 PROVE  CallInv'
      OBVIOUS
    <2>1. \A j \in 1 .. k : jobs'[j].req = jobs[j].req /\ jobs'[j].result = jobs[j].result
      BY <1>3
    <2>2. \A j \in 1 .. k : jobs[j].child = "none" => jobs'[j].child = "none"
      BY <1>1
    <2>3. pc \in {"open", "dup2", "close", "fork", "waitpid"} => k \in 1 .. k
      BY CurrentJob
    <2> QED BY <1>5, <2>1, <2>2, <2>3 DEF SystemCallsInv, CallInv, Redirects, req
  <1>8. pc' \in Labels
    BY <1>5 DEF SystemCallsInv, TypeOK
  <1> QED BY <1>3, <1>4, <1>5, <1>6, <1>7, <1>8, JobStep

(* Steps of the process that change no record. *)
LEMMA OtherStepsKeepInv ==
  ASSUME SystemCallsInv, Open \/ Dup2 \/ Close \/ Abort
  PROVE  SystemCallsInv'
  <1>1. CASE Open \/ Close \/ Abort
    <2>1. TypeOK'
      BY <1>1 DEF Open, Close, AfterClose, Abort, SystemCallsInv, TypeOK, CallInv
    <2>2. CallInv'
      BY <1>1 DEF Open, Close, AfterClose, Abort, SystemCallsInv, TypeOK, CallInv, Redirects, req, k
    <2> QED BY <1>1, <2>1, <2>2, SameJobs DEF Open, Close, Abort
  <1>2. CASE Dup2
    <2>1. jobs[k].req.outputfile \in Files
      BY <1>2, CurrentJob DEF Dup2, Jobs, RequestTypes
    <2> QED BY <1>2, <2>1, SameJobs
            DEF Dup2, Redirected, Redirects, req, SystemCallsInv, TypeOK, CallInv, k
  <1> QED BY <1>1, <1>2

-----------------------------------------------------------------------------
(* The invariant holds along every behaviour of the example. *)
THEOREM SystemCallsInvariant == Spec => []SystemCallsInv
  <1>1. Init => SystemCallsInv
    <2> SUFFICES ASSUME Init PROVE SystemCallsInv
      OBVIOUS
    <2>1. jobs = << >> /\ k = 0 /\ fds = 0 /\ pc = "caller" /\ stdout = Terminal
      BY DEF Init, k
    <2>2. TypeOK
      BY <2>1 DEF TypeOK
    <2>3. CallInv
      BY <2>1 DEF CallInv
    <2> QED BY <2>1, <2>2, <2>3 DEF SystemCallsInv
  <1>2. SystemCallsInv /\ [Next]_vars => SystemCallsInv'
    <2> SUFFICES ASSUME SystemCallsInv, [Next]_vars PROVE SystemCallsInv'
      OBVIOUS
    <2>1. ASSUME NEW r \in Requests, Call(r) PROVE SystemCallsInv'
      BY <2>1, CallKeepsInv
    <2>2. CASE Function
      BY <2>2, ForkKeepsInv, WaitpidKeepsInv, OtherStepsKeepInv DEF Function
    <2>3. CASE Abort \/ ForkFails \/ WaitpidFails
      BY <2>3, OtherStepsKeepInv, ForkFailsKeepsInv, WaitpidFailsKeepsInv
    <2>4. ASSUME NEW i \in 1 .. k, Child(i) PROVE SystemCallsInv'
      BY <2>4, ChildKeepsInv
    <2>5. CASE UNCHANGED vars
      BY <2>5, SameJobs DEF vars, SystemCallsInv, TypeOK, CallInv, Redirects, req, k
    <2> QED BY <2>1, <2>2, <2>3, <2>4, <2>5 DEF Next
  <1> QED BY <1>1, <1>2, PTL DEF Spec

(* A call that returns true ran a command that exited with 0, or was a     *)
(* do_exec_redirect whose waitpid failed.                                  *)
THEOREM TrueMeansSucceededHolds == Spec => []TrueMeansSucceeded
  <1>1. SystemCallsInv => TrueMeansSucceeded
    BY DEF SystemCallsInv, JobInv, TrueMeansSucceeded, WaitFailed
  <1> QED BY <1>1, SystemCallsInvariant, PTL

(* No call leaves a child behind unless its waitpid failed. *)
THEOREM NoChildLeftHolds == Spec => []NoChildLeft
  <1>1. SystemCallsInv => NoChildLeft
    BY DEF SystemCallsInv, JobInv, NoChildLeft, Returned, WaitFailed
  <1> QED BY <1>1, SystemCallsInvariant, PTL

(* Between calls descriptor 1 is the only one that can refer to an output  *)
(* file, whatever calls were made and wherever they returned.              *)
THEOREM OneDescriptorLeftHolds == Spec => []OneDescriptorLeft
  <1>1. SystemCallsInv => OneDescriptorLeft
    <2> SUFFICES ASSUME SystemCallsInv, pc = "caller" PROVE OnFiles <= 1
      BY DEF OneDescriptorLeft
    <2>1. fds = 0
      BY DEF SystemCallsInv, CallInv
    <2> QED BY <2>1 DEF OnFiles
  <1> QED BY <1>1, SystemCallsInvariant, PTL

(* The command of a redirected call writes to the file the call names,     *)
(* through any sequence of calls, failures and children left running.      *)
THEOREM RedirectedOutputHolds == Spec => []RedirectedOutput
  <1>1. SystemCallsInv => RedirectedOutput
    BY DEF SystemCallsInv, JobInv, RedirectedOutput
  <1> QED BY <1>1, SystemCallsInvariant, PTL
=============================================================================
