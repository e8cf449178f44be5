---------------------------- MODULE PortContract ----------------------------
(***************************************************************************)
(* What libaps promises of the bytes that come from a printer, whatever    *)
(* the transport: they form a stream per open port, a read returns the     *)
(* first ones and leaves the rest, and no call disturbs another port.      *)
(***************************************************************************)
EXTENDS Naturals, Sequences

CONSTANT Ports

VARIABLES
  st,     \* "none", "closed" or "open"
  q,      \* the stream of an open port, empty for others
  got     \* what the last call has returned

vars == <<st, q, got>>

Only(p) == q' = [q EXCEPT ![p] = q'[p]]
Becomes(p, from, to) == st[p] = from /\ st' = [st EXCEPT ![p] = to] /\ Only(p)

Create(p)  == Becomes(p, "none", "closed") /\ q'[p] = q[p] /\ got' = <<>>
Open(p)    == Becomes(p, "closed", "open") /\ got' = <<>>
Close(p)   == Becomes(p, "open", "closed") /\ q'[p] = <<>> /\ got' = <<>>
Destroy(p) == Becomes(p, "closed", "none") /\ q'[p] = q[p] /\ got' = <<>>

Arrive(p) ==
  /\ st[p] = "open" /\ Only(p) /\ UNCHANGED <<st, got>>
  /\ Len(q'[p]) >= Len(q[p]) /\ SubSeq(q'[p], 1, Len(q[p])) = q[p]

Read(p) == st[p] = "open" /\ Only(p) /\ UNCHANGED st /\ q[p] = got' \o q'[p]

(* A call that fails, flushes or resets may drop bytes from the front, and *)
(* a device that fails what was not fetched from it, but nothing between.  *)
Lose(p) ==
  /\ st[p] = "open" /\ Only(p) /\ UNCHANGED st /\ (got' = <<>> \/ got' = got)
  /\ \E k \in 0 .. Len(q[p]) : q'[p] \in {SubSeq(q[p], 1, k), SubSeq(q[p], k + 1, Len(q[p]))}

(* A call that moves no bytes.                                             *)
Other == UNCHANGED <<st, q>> /\ got' = <<>>

Init == st = [p \in Ports |-> "none"] /\ q = [p \in Ports |-> <<>>] /\ got = <<>>

Next ==
  \/ Other
  \/ \E p \in Ports : \/ Create(p) \/ Open(p) \/ Close(p) \/ Destroy(p)
                      \/ Arrive(p) \/ Read(p) \/ Lose(p)

Spec == Init /\ [][Next]_vars

=============================================================================
