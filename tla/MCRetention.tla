------------------------------ MODULE MCRetention ------------------------------
(* An administrator and an operator, each able to hold the authority; a record of *)
(* one enrollment that may start before or after it is held.                    *)
EXTENDS Retention

CONSTANTS admin, operator

MCUsers == {admin, operator}
MCEnrollments == {"enrolled", "other"}
MCEnrollmentOf == [r \in {"record"} |-> "enrolled"]

\* An authority call asks for the opposite of what its page shows (any other is
\* refused as a no-op), and the clock moves only once there is a hold: before the
\* first one no date is compared with it.
Focus ==
  /\ \A call \in inFlight' \ inFlight :
       call.op = "authority" => call.granted = (call.user \notin grants)
  /\ holds = <<>> => clock' = clock
================================================================================
