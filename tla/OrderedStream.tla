--------------------------- MODULE OrderedStream ---------------------------
(***************************************************************************)
(* What a client may see of one response body: a first byte and a length   *)
(* are announced once, the bytes follow in order from there, and the       *)
(* response ends complete only when exactly that many were delivered.  It  *)
(* may instead be refused before a byte or cut short at any point, which   *)
(* the client can tell from the connection closing early.                  *)
(***************************************************************************)
EXTENDS Integers, Sequences

CONSTANT MaxLength   \* largest announced length

VARIABLES
  from,     \* announced offset of the first byte, -1 before the head
  announced,\* declared length, -1 before the head
  sent,     \* offsets of the bytes delivered
  ended     \* "no", "complete", "refused" or "cut"

streamvars == <<from, announced, sent, ended>>

StreamInit ==
  /\ from = -1 /\ announced = -1 /\ sent = <<>> /\ ended = "no"

\* The head, when it is not out yet, and some more bytes in order.
Deliver ==
  /\ ended = "no" /\ UNCHANGED ended
  /\ announced # -1 => UNCHANGED <<from, announced>>
  /\ from' \in 0..MaxLength /\ announced' \in 0..MaxLength
  /\ Len(sent') \in Len(sent)..announced'
  /\ sent' = [i \in 1..Len(sent') |-> from' + i - 1]

Complete ==
  /\ ended = "no" /\ announced = Len(sent) /\ ended' = "complete"
  /\ UNCHANGED <<from, announced, sent>>

Refuse ==
  /\ ended = "no" /\ announced = -1 /\ ended' = "refused"
  /\ UNCHANGED <<from, announced, sent>>

Cut ==
  /\ ended = "no" /\ ended' = "cut"
  /\ UNCHANGED <<from, announced, sent>>

StreamNext == Deliver \/ Complete \/ Refuse \/ Cut

StreamSpec == StreamInit /\ [][StreamNext]_streamvars
=============================================================================
