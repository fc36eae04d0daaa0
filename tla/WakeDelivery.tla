----------------------------- MODULE WakeDelivery -----------------------------
(***************************************************************************)
(* What POST /runs relies on when it hands a run to the resident           *)
(* dispatcher: an answer means that the wake has reached a container, and  *)
(* a wake reaches a running container of the user who asked.  It is a      *)
(* promise about addresses, so it has two exceptions: at an address that   *)
(* the user's own callers gave anyone may be, and an address whose         *)
(* container stopped may have been given to another.  How the container is *)
(* found, launched and waited for is left open, and so is whether a wake   *)
(* that is answered with a failure was delivered, and how often.           *)
(* RunnerDispatch implements this specification.                           *)
(***************************************************************************)
CONSTANTS
    Dispatches,   \* calls of the dispatcher; each launches at most one container
    Addresses,
    Users,
    Nobody,       \* not a user
    Nowhere       \* not an address

VARIABLES
    asker,        \* the user a dispatch works for, once it has begun
    outcome,      \* "open", "dispatched" or "failed"
    owner,        \* the user a container was launched for
    at,           \* the address of a container, once it has run
    up,           \* the containers that are running
    named,        \* pairs of a user and an address his callers gave
    woken         \* pairs of a dispatch and a container its wake reached

vars == <<asker, outcome, owner, at, up, named, woken>>

Init ==
    /\ asker = [d \in Dispatches |-> Nobody]
    /\ outcome = [d \in Dispatches |-> "open"]
    /\ owner = [t \in Dispatches |-> Nobody]
    /\ at = [t \in Dispatches |-> Nowhere]
    /\ up = {}
    /\ named = {}
    /\ woken = {}

Begin(d) ==
    /\ asker[d] = Nobody
    /\ \E u \in Users : asker' = [asker EXCEPT ![d] = u]
    /\ UNCHANGED <<outcome, owner, at, up, named, woken>>

\* A container is launched by a dispatch, for the user that dispatch works for.
Launch(t) ==
    /\ owner[t] = Nobody
    /\ asker[t] # Nobody
    /\ owner' = [owner EXCEPT ![t] = asker[t]]
    /\ UNCHANGED <<asker, outcome, at, up, named, woken>>

Run(t) ==
    /\ owner[t] # Nobody
    /\ at[t] = Nowhere
    /\ \E a \in Addresses : /\ \A s \in up : at[s] # a
                            /\ at' = [at EXCEPT ![t] = a]
    /\ up' = up \union {t}
    /\ UNCHANGED <<asker, outcome, owner, named, woken>>

Stop(t) ==
    /\ up' = up \ {t}
    /\ UNCHANGED <<asker, outcome, owner, at, named, woken>>

\* A user's callers give addresses.
Name(u) ==
    /\ \E given \in SUBSET Addresses : named' = named \union ({u} \X given)
    /\ UNCHANGED <<asker, outcome, owner, at, up, woken>>

\* A user's wake may reach a container of another only through an address that
\* the user's callers gave or that a container of the user had and left.
MayReach(u, t) ==
    \/ owner[t] = u
    \/ <<u, at[t]>> \in named
    \/ \E s \in Dispatches \ up : owner[s] = u /\ at[s] = at[t]

Deliver(d, t) ==
    /\ outcome[d] = "open"
    /\ t \in up
    /\ asker[d] # Nobody
    /\ MayReach(asker[d], t)
    /\ woken' = woken \union {<<d, t>>}
    /\ outcome' \in {outcome, [outcome EXCEPT ![d] = "dispatched"]}
    /\ UNCHANGED <<asker, owner, at, up, named>>

\* At an address that was given, and no container has, something else answers.
AnsweredElsewhere(d) ==
    /\ outcome[d] = "open"
    /\ \E a \in Addresses : <<asker[d], a>> \in named /\ \A t \in up : at[t] # a
    /\ outcome' = [outcome EXCEPT ![d] = "dispatched"]
    /\ UNCHANGED <<asker, owner, at, up, named, woken>>

Fail(d) ==
    /\ outcome[d] = "open"
    /\ asker[d] # Nobody
    /\ outcome' = [outcome EXCEPT ![d] = "failed"]
    /\ UNCHANGED <<asker, owner, at, up, named, woken>>

Next ==
    \/ \E d \in Dispatches : Begin(d) \/ Fail(d) \/ AnsweredElsewhere(d)
    \/ \E t \in Dispatches : Launch(t) \/ Run(t) \/ Stop(t)
    \/ \E u \in Users : Name(u)
    \/ \E d, t \in Dispatches : Deliver(d, t)

Spec == Init /\ [][Next]_vars

=============================================================================
