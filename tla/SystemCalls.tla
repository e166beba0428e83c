---------------------------- MODULE SystemCalls ----------------------------
(***************************************************************************)
(* The systemcalls example (examples/systemcalls/systemcalls.c): a process *)
(* that runs commands with do_system, do_exec and do_exec_redirect, the    *)
(* children it forks, and the descriptors that refer to output files.      *)
(*                                                                         *)
(* A command exists or not, and ends by exit(0), by exit of something else *)
(* or by a signal.  A child whose parent gave up waiting for it goes on.   *)
(***************************************************************************)
EXTENDS Sequences, Naturals

CONSTANTS Requests,   \* the calls made: see RequestTypes
          Terminal,   \* where standard output goes at first
          Files,      \* output files
          Faults,     \* which system calls fail: "open", "dup2", "fork", "waitpid"
          MaxCalls    \* bound on the calls

RequestTypes ==
  [fn : {"do_system", "do_exec", "do_exec_redirect"}, outputfile : Files,
   exists : BOOLEAN, ends : {"zero", "nonzero", "killed"}]

ASSUME SystemCallsAssumption ==
  /\ Requests \subseteq RequestTypes
  /\ Terminal \notin Files
  /\ Faults \subseteq {"open", "dup2", "fork", "waitpid"}
  /\ MaxCalls \in Nat

VARIABLES
  pc,       \* where the process is; "caller" outside the three functions
  jobs,     \* one record per call made, the last one the current one
  stdout,   \* what descriptor 1 refers to
  fds       \* how many of the descriptors that open returned are open

vars == <<pc, jobs, stdout, fds>>

(* child: the process forked.  out: where its output goes.  waited: how    *)
(* waitpid returned.                                                       *)
Jobs == [req : RequestTypes, child : {"none", "forked", "running", "ended", "reaped"},
         out : Files \cup {Terminal},
         waited : {"no", "yes", "failed"}, result : {"none", "true", "false"}]

Labels == {"caller", "open", "dup2", "close", "fork", "waitpid", "aborted"}

TypeOK ==
  /\ pc \in Labels /\ jobs \in Seq(Jobs)
  /\ stdout \in Files \cup {Terminal} /\ fds \in Nat

Init ==
  /\ pc = "caller" /\ jobs = << >> /\ stdout = Terminal /\ fds = 0

k == Len(jobs)
req == jobs[k].req
Redirects == req.fn = "do_exec_redirect"

-----------------------------------------------------------------------------
(* The three functions *)

Call(r) ==
  /\ pc = "caller" /\ k < MaxCalls
  /\ jobs' = Append(jobs, [req |-> r, child |-> "none", out |-> stdout,
                           waited |-> "no", result |-> "none"])
  /\ pc' = IF r.fn = "do_exec_redirect" THEN "open" ELSE "fork"
  /\ UNCHANGED <<stdout, fds>>

Open ==
  /\ pc = "open" /\ pc' = "dup2"
  /\ fds' = fds + 1
  /\ UNCHANGED <<jobs, stdout>>

(* Descriptor 1 refers to the file from here on, after the call too. *)
Redirected_Not == stdout
Redirected == req.outputfile
Dup2 ==
  /\ pc = "dup2" /\ pc' = "close"
  /\ stdout' = Redirected
  /\ UNCHANGED <<jobs, fds>>

(* A failing open or dup2: perror, abort. *)
Abort ==
  /\ pc \in Faults \cap {"open", "dup2"}
  /\ pc' = "aborted"
  /\ UNCHANGED <<jobs, stdout, fds>>

AfterClose_Leaked == fds
AfterClose == fds - 1
Close ==
  /\ pc = "close" /\ pc' = "fork"
  /\ fds' = AfterClose
  /\ UNCHANGED <<jobs, stdout>>

Fork ==
  /\ pc = "fork" /\ pc' = "waitpid"
  /\ jobs' = [jobs EXCEPT ![k].child = "forked", ![k].out = stdout]
  /\ UNCHANGED <<stdout, fds>>

(* fork returns -1: return false. *)
ForkFails ==
  /\ pc = "fork" /\ "fork" \in Faults
  /\ pc' = "caller"
  /\ jobs' = [jobs EXCEPT ![k].result = "false"]
  /\ UNCHANGED <<stdout, fds>>

(* The child exited, and with status 0; a child whose execv failed exits   *)
(* with -1.                                                                *)
Succeeded(r) == r.exists /\ r.ends = "zero"
Result_Exited(r) == IF r.exists => r.ends # "killed" THEN "true" ELSE "false"
Result(r) == IF Succeeded(r) THEN "true" ELSE "false"

(* The child is no longer in the process table. *)
Reaped_Not == "ended"
Reaped == "reaped"
Waitpid ==
  /\ pc = "waitpid" /\ jobs[k].child = "ended"
  /\ pc' = "caller"
  /\ jobs' = [jobs EXCEPT ![k].child = Reaped, ![k].waited = "yes", ![k].result = Result(req)]
  /\ UNCHANGED <<stdout, fds>>

(* waitpid returns -1.  do_exec_redirect compares with 1, and goes on with *)
(* a status that was never set.                                            *)
WaitpidFails ==
  /\ pc = "waitpid" /\ "waitpid" \in Faults
  /\ pc' = "caller"
  /\ \E b \in IF Redirects THEN {"true", "false"} ELSE {"false"} :
       jobs' = [jobs EXCEPT ![k].waited = "failed", ![k].result = b]
  /\ UNCHANGED <<stdout, fds>>

-----------------------------------------------------------------------------
(* The children *)

(* execv; system starts a shell, which is there whatever the command is.   *)
Execs(r) == r.fn = "do_system" \/ r.exists

Exec(i) ==
  /\ jobs[i].child = "forked" /\ Execs(jobs[i].req)
  /\ jobs' = [jobs EXCEPT ![i].child = "running"]
  /\ UNCHANGED <<pc, stdout, fds>>

(* execv returned: exit(-1). *)
AfterExec_Stays == "forked"
AfterExec == "ended"
ExecFails(i) ==
  /\ jobs[i].child = "forked" /\ ~Execs(jobs[i].req)
  /\ jobs' = [jobs EXCEPT ![i].child = AfterExec]
  /\ UNCHANGED <<pc, stdout, fds>>

CommandEnds(i) ==
  /\ jobs[i].child = "running"
  /\ jobs' = [jobs EXCEPT ![i].child = "ended"]
  /\ UNCHANGED <<pc, stdout, fds>>

Child(i) == Exec(i) \/ ExecFails(i) \/ CommandEnds(i)

-----------------------------------------------------------------------------
Function == Open \/ Dup2 \/ Close \/ Fork \/ Waitpid

Next ==
  \/ \E r \in Requests : Call(r)
  \/ Function \/ Abort \/ ForkFails \/ WaitpidFails
  \/ \E i \in 1 .. k : Child(i)

Spec == Init /\ [][Next]_vars

(* The process and its children run, and commands end. *)
FairSpec ==
  /\ Spec /\ WF_vars(Function)
  /\ \A i \in 1 .. MaxCalls : WF_vars(i <= k /\ Child(i))

-----------------------------------------------------------------------------
(* Properties *)

Returned(j) == jobs[j].result # "none"
WaitFailed(j) == jobs[j].waited = "failed"

(* A call that returns true ran a command that exited with 0.  The one     *)
(* exception is do_exec_redirect when waitpid fails.                       *)
TrueMeansSucceeded ==
  \A j \in 1 .. k :
    jobs[j].result = "true" =>
      \/ Succeeded(jobs[j].req) /\ jobs[j].child = "reaped"
      \/ WaitFailed(j) /\ jobs[j].req.fn = "do_exec_redirect"

(* A call leaves no child behind, neither one that runs nor one that was   *)
(* not waited for, on any path on which its waitpid works.                 *)
NoChildLeft ==
  \A j \in 1 .. k : Returned(j) => jobs[j].child \in {"none", "reaped"} \/ WaitFailed(j)

(* The descriptors that refer to an output file, descriptor 1 included.    *)
OnFiles == fds + (IF stdout \in Files THEN 1 ELSE 0)

(* Descriptors do not pile up: however many redirected calls were made and *)
(* wherever they returned, at most one descriptor is left that refers to   *)
(* an output file.  That one is descriptor 1, which dup2 made refer to it: *)
(* the file is not "closed at completion of the function call", as the     *)
(* comment above do_exec_redirect has it.                                  *)
OneDescriptorLeft == pc = "caller" => OnFiles <= 1

(* The command of a redirected call writes to the file the call names,     *)
(* whatever files earlier calls have left standard output on, and goes on  *)
(* doing so when later calls redirect it again.                            *)
RedirectedOutput ==
  \A j \in 1 .. k :
    jobs[j].req.fn = "do_exec_redirect" /\ jobs[j].child # "none" =>
      jobs[j].out = jobs[j].req.outputfile

(* Every call returns, or aborts the process. *)
EveryCallReturns == pc # "caller" ~> pc \in {"caller", "aborted"}
=============================================================================
