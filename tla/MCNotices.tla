----------------------------- MODULE MCNotices -----------------------------
(* Instances of Notifier for TLC. *)
EXTENDS Notifier, TLC

(* The file and the tasks' titles without a notifier; the notifier with a  *)
(* title that comes at any time; the same without notices of completion.   *)
TitleSide ==
  [titles |-> Titles, files |-> 2, pieces |-> 4, statuses |-> {"running"}, summaries |-> 2,
   restarts |-> 1, notifier |-> FALSE, completed |-> FALSE, failures |-> 0]
NoticeSide ==
  [titles |-> {"a"}, files |-> 1, pieces |-> 2, statuses |-> {"degraded", "completed"},
   summaries |-> 2, restarts |-> 0, notifier |-> TRUE, completed |-> TRUE, failures |-> 1]
QuietSide ==
  [NoticeSide EXCEPT !.statuses = Statuses, !.completed = FALSE, !.summaries = 1]
Separately == {TitleSide, NoticeSide, QuietSide}
=============================================================================
