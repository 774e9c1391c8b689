------------------------------ MODULE ByteStream -------------------------------
(***************************************************************************)
(* What one TCP connection promises its two ends, whatever the network     *)
(* does: bytes reach the other end as they were written, in order, none    *)
(* twice and none left out; the end of the other side's bytes is seen only *)
(* after all of them; and a connection that is closed in order, with a     *)
(* FIN, has first brought over everything that was written.                *)
(***************************************************************************)
EXTENDS Integers, SequencesExt

CONSTANT Incoming(_) \* the bytes that the other side sends on a connection

VARIABLES conn,      \* connections opened so far; the last one is the current
          open,      \* is it still there
          written,   \* what the program has written to it
          arrived,   \* what of that the other side has received
          received,  \* what has been received for the program
          ended,     \* the program has seen that there is no more
          goodbye    \* how the last connection ended: "none", "fin" or "lost"

vars == <<conn, open, written, arrived, received, ended, goodbye>>

Init ==
    /\ conn = 0 /\ ~open /\ goodbye = "none"
    /\ written = <<>> /\ arrived = <<>> /\ received = <<>> /\ ~ended

Clear == written' = <<>> /\ arrived' = <<>> /\ received' = <<>> /\ ~ended'

Open ==
    /\ ~open /\ open' /\ conn' = conn + 1
    /\ Clear /\ UNCHANGED goodbye

\* Both directions may move on in one step: a segment carries bytes and an ACK.
Exchange ==
    /\ open /\ open' /\ UNCHANGED <<conn, goodbye>>
    /\ IsPrefix(written, written')
    /\ IsPrefix(arrived, arrived') /\ IsPrefix(arrived', written')
    /\ IsPrefix(received, received') /\ IsPrefix(received', Incoming(conn))
    /\ ended => ended'
    /\ ended' => received' = Incoming(conn)

Finish ==
    /\ open /\ ~open' /\ arrived = written
    /\ goodbye' = "fin" /\ Clear /\ UNCHANGED conn

Abort ==
    /\ open /\ ~open' /\ goodbye' = "lost" /\ Clear /\ UNCHANGED conn

Next == Open \/ Exchange \/ Finish \/ Abort
Spec == Init /\ [][Next]_vars
=============================================================================
