---------------------------- MODULE MCRunReports ----------------------------
(* A small instance of RunReports for TLC. *)
EXTENDS RunReports

CONSTANTS h1, h2  \* the members of Hashes

ASSUME {h1, h2} \subseteq Hashes

R(k, h, d) == [key |-> k, hash |-> h, disp |-> d]

(* Three results out of the order of their keys; the same key twice, which *)
(* MySQL refuses; nothing new, for a tenant without a row in MySQL.        *)
MixedUploads ==
    {[tenant |-> 1, rows |-> <<R(2, h1, "enqueued"), R(1, NoHash, "rejected"),
                               R(3, h2, "enqueued")>>],
     [tenant |-> 1, rows |-> <<R(1, h1, "enqueued"), R(1, h2, "enqueued")>>],
     [tenant |-> 2, rows |-> <<R(1, h1, "unchanged")>>]}

(* No valid limit, and one above the maximum. *)
EdgeLimits == {-1, 3}

(* Workers take, and details are read and remembered of, one run alone:    *)
(* those of two runs do not meet.  Uploads go on, and a list shows every   *)
(* run.  The clock moves once there is a run.                              *)
OneRunInDetail ==
    /\ \E r \in Requests :
          /\ \A q \in Requests \ {r} :
                q \notin locked /\ (runs[q].push => runs[q].status = "has_changes")
          /\ seen = NoRead \/ seen.run = r
          /\ \A v \in Readers : reading[v] = NoRead \/ reading[v].run = r
    /\ clock = 0 \/ \E r \in Requests : runs[r].status # "absent" /\ runs[r].created = 0

(* A list that nobody remembers is checked, but nothing depends on it: the *)
(* states after it are those after the state before it.                    *)
ListsAreReads == report'.kind = "list" => seen' # seen

Symmetry == Permutations(Requests) \cup Permutations(Readers)
=============================================================================
