----------------------------- MODULE CodecLease -----------------------------
(***************************************************************************)
(* What the recovery protocol of MediaCodecDecoderRenderer promises about  *)
(* the MediaCodec its threads share.                                       *)
(*                                                                         *)
(* Threads use the codec together, and take buffers of it on lease, or one *)
(* thread owns it alone.  Only the owner may renew it, that is stop, reset *)
(* or recreate it, and only after every lease is recalled: a buffer of the *)
(* earlier life of the codec must not come back to the new one.            *)
(***************************************************************************)
CONSTANT Threads

VARIABLES
    users,     \* the threads between two calls of the codec
    owner,     \* the thread that recovers the codec, as a set of at most one
    leases,    \* whether a buffer of the codec is held outside of it
    primed     \* whether this life of the codec was given any data

vars == <<users, owner, leases, primed>>

Init ==
    /\ users = {}
    /\ owner = {}
    /\ leases = FALSE
    /\ primed = FALSE

\* Nobody starts to use a codec that is being recovered
Enter(t) ==
    /\ owner = {}
    /\ users' = users \cup {t}
    /\ UNCHANGED <<owner, leases, primed>>

\* A user fills the codec, takes or returns buffers, and may stop using it
Work(t) ==
    /\ t \in users
    /\ users' \in {users, users \ {t}}
    /\ leases' \in BOOLEAN
    /\ primed' \in {primed, TRUE}
    /\ UNCHANGED owner

\* A buffer is given up for lost
Forget ==
    /\ leases' = FALSE
    /\ UNCHANGED <<users, owner, primed>>

Acquire(t) ==
    /\ users = {}
    /\ owner = {}
    /\ owner' = {t}
    /\ UNCHANGED <<users, leases, primed>>

Renew(t) ==
    /\ owner = {t}
    /\ users = {}
    /\ ~leases
    /\ primed' = FALSE
    /\ UNCHANGED <<users, owner, leases>>

Relinquish(t) ==
    /\ owner = {t}
    /\ owner' = {}
    /\ UNCHANGED <<users, leases, primed>>

Next ==
    \/ \E t \in Threads : Enter(t) \/ Work(t) \/ Acquire(t) \/ Renew(t) \/ Relinquish(t)
    \/ Forget

Spec == Init /\ [][Next]_vars
=============================================================================
