----------------------------- MODULE Connection -----------------------------
(***************************************************************************)
(* What a client of the native protocol promises its application: two      *)
(* reliable first-in first-out channels.  Whole messages enter `outbox`    *)
(* and their units leave it in order for the server; packets enter `inbox` *)
(* and every one that is an event leaves it in order for the application.  *)
(* No call that fails or is given up may show in this picture.             *)
(***************************************************************************)
EXTENDS Integers, Sequences

CONSTANTS Encode(_),    \* the units of a message
          Requests,     \* messages the application can send
          Packets       \* packets the server can send

VARIABLES
    phase,      \* "greeting", "open" or "gone"
    outbox,     \* units on their way to the server
    received,   \* units the server has
    inbox,      \* packets on their way to the application
    delivered   \* events the application has

connVars == <<phase, outbox, received, inbox, delivered>>

ConnInit ==
    /\ phase = "greeting"
    /\ outbox = <<>> /\ received = <<>> /\ inbox = <<>> /\ delivered = <<>>

\* A message is accepted as a whole.
Accept(m) ==
    /\ m \in IF phase = "greeting" THEN {"Hello"} ELSE Requests
    /\ phase # "gone"
    /\ outbox' = outbox \o Encode(m)
    /\ UNCHANGED <<phase, received, inbox, delivered>>

Receive ==
    /\ outbox # <<>>
    /\ received' = Append(received, Head(outbox))
    /\ outbox' = Tail(outbox)
    /\ UNCHANGED <<phase, inbox, delivered>>

Reply(p) ==
    /\ inbox' = Append(inbox, p)
    /\ UNCHANGED <<phase, outbox, received, delivered>>

\* The answer to Hello is followed by the addendum.
Greet ==
    /\ phase = "greeting"
    /\ inbox # <<>> /\ Head(inbox) = "ServerHello"
    /\ inbox' = Tail(inbox)
    /\ outbox' = outbox \o Encode("Addendum")
    /\ UNCHANGED <<phase, received, delivered>>

Open ==
    /\ phase = "greeting"
    /\ phase' = "open"
    /\ UNCHANGED <<outbox, received, inbox, delivered>>

\* The handshake is rejected, fails or is given up.
Reject ==
    /\ phase = "greeting"
    /\ phase' = "gone"
    /\ \/ UNCHANGED inbox
       \/ inbox # <<>> /\ Head(inbox) = "Exception" /\ inbox' = Tail(inbox)
    /\ UNCHANGED <<outbox, received, delivered>>

\* The next packet becomes an event.
Deliver ==
    /\ phase = "open"
    /\ inbox # <<>> /\ Head(inbox) # "Unknown"
    /\ delivered' = Append(delivered, Head(inbox))
    /\ inbox' = Tail(inbox)
    /\ UNCHANGED <<phase, outbox, received>>

\* A packet of an unknown kind is reported as an error and stepped over.
StepOver ==
    /\ phase = "open"
    /\ inbox # <<>> /\ Head(inbox) = "Unknown"
    /\ inbox' = Tail(inbox)
    /\ UNCHANGED <<phase, outbox, received, delivered>>

ConnNext ==
    \/ \E m \in Requests \cup {"Hello"} : Accept(m)
    \/ Receive
    \/ \E p \in Packets : Reply(p)
    \/ Greet \/ Open \/ Reject \/ Deliver \/ StepOver

ConnSpec == ConnInit /\ [][ConnNext]_connVars
=============================================================================
