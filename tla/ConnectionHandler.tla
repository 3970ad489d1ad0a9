------------------------- MODULE ConnectionHandler -------------------------
(***************************************************************************)
(* What the server thread and a connection's handlers owe each other, over *)
(* the life of one connection.  The thread calls the handlers when         *)
(* something has happened that no call has dealt with; a call that finds   *)
(* the connection at its end returns false, and the thread then removes    *)
(* the connection.  TcpConnection implements this specification, and so    *)
(* does Reactor for each of its clients: what Reactor assumes of handlers  *)
(* is what the handlers do.                                                *)
(***************************************************************************)

VARIABLES
  at,       \* where the connection is: see TypeOK
  dirty,    \* something has happened that no call has taken note of
  finished, \* the connection has come to its end
  failed    \* an epoll_ctl call for it has failed

vars == << at, dirty, finished, failed >>

TypeOK ==
  /\ at \in {"new", "epoll", "lost", "handler", "remove", "gone"}
  /\ dirty \in BOOLEAN /\ finished \in BOOLEAN /\ failed \in BOOLEAN

Init == at = "new" /\ dirty = FALSE /\ finished = FALSE /\ failed \in BOOLEAN

Event ==
  /\ ~ finished
  /\ dirty' = TRUE
  /\ UNCHANGED << at, finished, failed >>

(* By something that happens, or because a handler has done the rest.  A   *)
(* call that is under way may notice it.                                   *)
Finish ==
  /\ ~ finished
  /\ finished' = TRUE
  /\ at # "handler" => dirty'
  /\ dirty' \in BOOLEAN
  /\ UNCHANGED << at, failed >>

(* The Channel is added to the epoll set; if that fails it is never called. *)
Register ==
  /\ at = "new"
  /\ at' \in {"epoll", "lost"}
  /\ failed' \in {failed, TRUE}
  /\ UNCHANGED << dirty, finished >>

(* epoll_wait returns the Channel. *)
Call ==
  /\ at = "epoll" /\ dirty
  /\ at' = "handler"
  /\ dirty' = FALSE
  /\ UNCHANGED << finished, failed >>

(* What happens during a call may still be dealt with by it. *)
More ==
  /\ at = "handler" /\ dirty
  /\ dirty' = FALSE
  /\ UNCHANGED << at, finished, failed >>

(* handleEvent returns true: never when the end was there to be seen. *)
ReturnTrue ==
  /\ at = "handler"
  /\ finished => dirty
  /\ at' = "epoll"
  /\ UNCHANGED << dirty, finished, failed >>

(* A failure that no result tells of: TcpConnection::send ignores it. *)
Fail ==
  /\ failed' = TRUE
  /\ UNCHANGED << at, dirty, finished >>

(* handleEvent returns false: only at the end or after a failure. *)
ReturnFalse ==
  /\ at = "handler"
  /\ failed' \in {failed, TRUE}
  /\ finished \/ failed'
  /\ at' = "remove"
  /\ finished' = TRUE
  /\ dirty' \in {dirty, FALSE}

Remove ==
  /\ at = "remove"
  /\ at' = "gone"
  /\ UNCHANGED << dirty, finished, failed >>

Next ==
  \/ Event \/ Finish \/ Register \/ Call \/ More
  \/ ReturnTrue \/ Fail \/ ReturnFalse \/ Remove

Spec == Init /\ [][Next]_vars

(* What the two sides achieve together: the end of a connection is dealt   *)
(* with, or noted for a call to come.                                      *)
EndIsNoted == finished => dirty \/ at \in {"handler", "remove", "gone"}
=============================================================================
