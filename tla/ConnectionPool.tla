--------------------------- MODULE ConnectionPool ---------------------------
(***************************************************************************)
(* What the server promises its clients as a whole, whatever rounds,       *)
(* registries and descriptors are behind it: clients are served in the     *)
(* order they came, as many at a time as there are places; each has a      *)
(* place once, to itself, and keeps it until it is done                    *)
(* (docs/01_requirements.md:11).  Reactor implements this specification.   *)
(***************************************************************************)
EXTENDS Sequences

CONSTANTS
  Clients,  \* the clients
  None,     \* no client
  Places    \* the places

VARIABLES
  came,     \* clients that have come
  done,     \* clients that need the service no more
  waiting,  \* clients without a place yet, in the order they came
  place     \* the client at each place, or None

vars == << came, done, waiting, place >>

TypeOK ==
  /\ came \subseteq Clients /\ done \subseteq came
  /\ waiting \in Seq(Clients)
  /\ place \in [Places -> Clients \union {None}]

Init ==
  /\ came = {} /\ done = {}
  /\ waiting = << >>
  /\ place = [p \in Places |-> None]

Come(c) ==
  /\ c \notin came
  /\ came' = came \union {c}
  /\ waiting' = Append(waiting, c)
  /\ UNCHANGED << done, place >>

Finish(c) ==
  /\ c \in came \ done
  /\ done' = done \union {c}
  /\ UNCHANGED << came, waiting, place >>

(* The first in the queue gets a place nobody has. *)
Serve(p) ==
  /\ waiting # << >> /\ place[p] = None
  /\ place' = [place EXCEPT ![p] = Head(waiting)]
  /\ waiting' = Tail(waiting)
  /\ UNCHANGED << came, done >>

(* Only a client that is done leaves its place. *)
Release(p) ==
  /\ place[p] \in done
  /\ place' = [place EXCEPT ![p] = None]
  /\ UNCHANGED << came, done, waiting >>

Next ==
  \/ \E c \in Clients : Come(c) \/ Finish(c)
  \/ \E p \in Places : Serve(p) \/ Release(p)

Spec == Init /\ [][Next]_vars
=============================================================================
