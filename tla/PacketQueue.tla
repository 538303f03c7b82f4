---------------------------- MODULE PacketQueue ----------------------------
(***************************************************************************)
(* What the packet pipeline of one connection promises: the packets of a   *)
(* client are handled one after the other, in the order they came, each    *)
(* once and each as a whole.  A packet for which no handler is registered  *)
(* ends the process.                                                       *)
(***************************************************************************)
EXTENDS Naturals, Sequences

CONSTANTS
  Packets,     (* the packets a client may send                       *)
  Registered,  (* those whose PacketId has an entry in packetIDTable  *)
  None         (* no packet                                           *)

VARIABLES
  waiting,     (* packets received and not handled yet  *)
  handled,     (* the packet handled last               *)
  alive        (* the process runs                      *)

queueVars == <<waiting, handled, alive>>

Init == waiting = <<>> /\ handled = None /\ alive = TRUE

Receive(p) ==
  /\ alive
  /\ waiting' = Append(waiting, p)
  /\ UNCHANGED <<handled, alive>>

Handle ==
  /\ alive /\ waiting # <<>>
  /\ \/ /\ Head(waiting) \in Registered
        /\ handled' = Head(waiting)
        /\ waiting' = Tail(waiting)
        /\ UNCHANGED alive
     \/ /\ Head(waiting) \notin Registered
        /\ alive' = FALSE
        /\ UNCHANGED <<waiting, handled>>

Next == Handle \/ \E p \in Packets : Receive(p)

Spec == Init /\ [][Next]_queueVars
============================================================================
