-------------------------- MODULE MCCaptureIntake --------------------------
(* Instances of CaptureIntake for TLC. *)
EXTENDS CaptureIntake, TLC

CONSTANTS f1, f2

Sizes == (f1 :> 1) @@ (f2 :> 2)

(* Processes that come and go without traffic, with two executables, with  *)
(* a thread that exits or with look-ups that fail; traffic of one process  *)
(* without probes; the same among the traffic of other programs.           *)
Lifecycle == [procs |-> 2, paths |-> Paths, threads |-> 0, failures |-> 0,
              flows |-> {}, segments |-> 0, ring |-> 1]
Threads == [Lifecycle EXCEPT !.paths = {"codex"}, !.threads = 1]
Unlisted == [Lifecycle EXCEPT !.procs = 1, !.paths = {"codex"}, !.failures = 2]
OneFlow == [procs |-> 1, paths |-> {"codex"}, threads |-> 0, failures |-> 0,
            flows |-> {f1}, segments |-> 3, ring |-> 0]
TwoFlows == [OneFlow EXCEPT !.flows = {f1, f2}, !.segments = 2]
Separately == {Lifecycle, Threads, Unlisted, OneFlow, TwoFlows}
=============================================================================
