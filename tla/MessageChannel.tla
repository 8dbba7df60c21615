-------------------------- MODULE MessageChannel --------------------------
(***************************************************************************)
(* What the sending side of one established connection promises to the     *)
(* users of ConnectionManager::SendMessage: messages reach the stream in   *)
(* the order in which they were accepted and each at most once.  A message *)
(* whose send fails is given up and the next one is tried; as long as the  *)
(* connection is up this is the only way to lose one, so every accepted    *)
(* message is waiting, written or known to have failed.  A connection that *)
(* goes down loses what waits.                                             *)
(***************************************************************************)
EXTENDS Sequences

CONSTANT Msgs

VARIABLES
    accepted,   \* every message put into the queue, in order
    pending,    \* accepted, neither transmitted nor dropped yet
    wire,       \* messages written to the stream completely, in order
    unsent,     \* messages whose send failed, in order
    up          \* neither broken nor being closed

chan == <<accepted, pending, wire, unsent, up>>

Init ==
    /\ accepted = <<>>
    /\ pending = <<>>
    /\ wire = <<>>
    /\ unsent = <<>>
    /\ up = TRUE

Accept(m) ==
    /\ accepted' = Append(accepted, m)
    /\ pending' = Append(pending, m)
    /\ UNCHANGED <<wire, unsent, up>>

Transmit ==
    /\ pending # <<>>
    /\ wire' = Append(wire, Head(pending))
    /\ pending' = Tail(pending)
    /\ UNCHANGED <<accepted, unsent, up>>

Fail ==
    /\ up' = FALSE
    /\ UNCHANGED <<accepted, pending, wire, unsent>>

(* The message being written is given up because its send failed.          *)
GiveUp ==
    /\ pending # <<>>
    /\ unsent' = Append(unsent, Head(pending))
    /\ pending' = Tail(pending)
    /\ UNCHANGED <<accepted, wire, up>>

(* The message being written goes down with the connection.                *)
Drop ==
    /\ pending # <<>>
    /\ pending' = Tail(pending)
    /\ up' = FALSE
    /\ UNCHANGED <<accepted, wire, unsent>>

(* The queue goes away with its connection; only the message being written *)
(* may still be under way.                                                 *)
Discard ==
    /\ ~up
    /\ pending' = <<>> \/ (pending # <<>> /\ pending' = <<Head(pending)>>)
    /\ UNCHANGED <<accepted, wire, unsent, up>>

Next ==
    \/ \E m \in Msgs : Accept(m)
    \/ Transmit
    \/ Fail
    \/ GiveUp
    \/ Drop
    \/ Discard

Spec == Init /\ [][Next]_chan
=============================================================================
