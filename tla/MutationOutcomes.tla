-------------------------- MODULE MutationOutcomes --------------------------
(***************************************************************************)
(* What mutation execution promises, without rows, locks, groups in        *)
(* flight, retries or crashes: the members of a Store's Batches are        *)
(* decided once, Batch by Batch and in order, a contiguous group of one    *)
(* frozen Batch at a time; deciding a member as accepted performs its      *)
(* business work in the same step.                                         *)
(***************************************************************************)
EXTENDS Integers

CONSTANTS Digests, CountOf, MaxBatch

VARIABLES
    decided,     \* the results decided so far
    performed    \* how often the business work of a member was performed

BatchIds == 1..MaxBatch
Ordinals == UNION {0..(CountOf[d] - 1) : d \in Digests}
Members  == BatchIds \X Digests \X Ordinals

Init == decided = {} /\ performed = [m \in Members |-> 0]

DecidedOf(b) == {s \in decided : s.batch = b}

\* Ordinal `from` of Batch b under digest d is the next one to decide.
NextUp(b, d, from) ==
    /\ \A o \in 0..(from - 1) : \E s \in DecidedOf(b) : s.digest = d /\ s.ordinal = o
    /\ \A s \in DecidedOf(b) : s.digest = d /\ s.ordinal < from
    /\ b > 1 => \E s \in DecidedOf(b - 1) : s.ordinal = CountOf[s.digest] - 1

\* Members from..to of Batch b are decided together.
Decide(b, d, from, to) ==
    /\ NextUp(b, d, from)
    /\ \E outcome \in [from..to -> {"accepted", "rejected"}] :
         /\ decided' = decided \cup {[batch |-> b, digest |-> d, ordinal |-> o,
                                      outcome |-> outcome[o]] : o \in from..to}
         /\ performed' = [m \in Members |->
                IF m[1] = b /\ m[2] = d /\ m[3] \in from..to /\ outcome[m[3]] = "accepted"
                THEN performed[m] + 1 ELSE performed[m]]

Next == \E b \in BatchIds, d \in Digests :
            \E from \in 0..(CountOf[d] - 1) : \E to \in from..(CountOf[d] - 1) :
                Decide(b, d, from, to)

Spec == Init /\ [][Next]_<<decided, performed>>

============================================================================
