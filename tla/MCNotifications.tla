--------------------------- MODULE MCNotifications ---------------------------
(* Notifications on small instances.                                       *)
EXTENDS Notifications, TLC

Symmetry == Permutations(Users) \cup Permutations(Runs)

\* An edit, an answer that was lost and the deletion of the job are followed up
\* apart from each other: a deletion with one other event and one job queued,
\* the others with another event only while the runs do not overlap.
Few ==
  /\ cancelling # {} \/ (\E c \in Calls : job[c].status = "deleted")
       => db.version = 0 /\ trouble + crashes < MaxEvents /\ Len(queue) < MaxQueue
  /\ unrecorded # {} => db.version = 0
  /\ overlapped # {} /\ (db.version > 0 \/ unrecorded # {}) => trouble + crashes = 0
=============================================================================
