----------------------------- MODULE JobPromise -----------------------------
(***************************************************************************)
(* What a member is promised for a credit spent on an image               *)
(* (docs/03-usecases.md 2): a paid job is delivered with its image, or     *)
(* fails and is refunded, never both, and what ended stays so.  Queue,     *)
(* leases, retries and crashes do not appear: Generation.tla has them and  *)
(* implements this.                                                        *)
(***************************************************************************)
CONSTANT Job

VARIABLES
    phase,       \* how far each job has come
    image        \* the jobs whose image is stored

vars == <<phase, image>>

Init ==
    /\ phase = [j \in Job |-> "none"]
    /\ image = {}

Move(j, from, to) ==
    /\ phase[j] = from
    /\ phase' = [phase EXCEPT ![j] = to]
    /\ UNCHANGED image

Pay(j) == Move(j, "none", "paid")

Store(j) ==
    /\ phase[j] = "paid"
    /\ image' = image \union {j}
    /\ UNCHANGED phase

Deliver(j) == j \in image /\ Move(j, "paid", "delivered")

Fail(j) == Move(j, "paid", "failed")

Refund(j) == Move(j, "failed", "refunded")

Next ==
    \E j \in Job :
        Pay(j) \/ Store(j) \/ Deliver(j) \/ Fail(j) \/ Refund(j)

Spec == Init /\ [][Next]_vars
=============================================================================
