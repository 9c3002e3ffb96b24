------------------------------- MODULE Fanout -------------------------------
(***************************************************************************)
(* What a fan-out of one byte stream to several readers promises,          *)
(* whatever its buffers do: a reader may miss chunks, but what it receives *)
(* are chunks that were written, unaltered, each at most once, and those   *)
(* of one writer in the order in which they were written.                  *)
(*                                                                         *)
(* MultiWriter, with its bounded queues, pooled buffers and reference      *)
(* counts, is shown to implement this specification.                       *)
(***************************************************************************)
EXTENDS Integers, Sequences

CONSTANTS
    Readers,  \* who receives
    Authors   \* who writes; the chunks of an author are numbered from 1

VARIABLES
    inbox,    \* inbox[r]: chunks accepted for r and neither received nor lost
    got,      \* got[r][a]: number of the last chunk of a that r has received
    offered   \* offered[r][a]: number of the last chunk of a that was offered to r

fanoutVars == <<inbox, got, offered>>

FanoutInit ==
    /\ inbox = [r \in Readers |-> << >>]
    /\ got = [r \in Readers |-> [a \in Authors |-> 0]]
    /\ offered = [r \in Readers |-> [a \in Authors |-> 0]]

\* Chunk n of author a is accepted for r; chunks before it may never have been.
Offer(r, a, n) ==
    /\ n > offered[r][a]
    /\ offered' = [offered EXCEPT ![r][a] = n]
    /\ inbox' = [inbox EXCEPT ![r] = Append(@, [by |-> a, n |-> n])]
    /\ UNCHANGED got

\* A chunk that waits for r is given up.
Lose(r, i) ==
    /\ UNCHANGED <<got, offered>>
    /\ inbox' = [inbox EXCEPT ![r] = [j \in 1 .. Len(@) - 1 |-> @[IF j < i THEN j ELSE j + 1]]]

\* The oldest chunk reaches r; it is newer than all it has from the same author.
Receive(r) ==
    /\ UNCHANGED offered
    /\ inbox[r] # << >>
    /\ Head(inbox[r]).n > got[r][Head(inbox[r]).by]
    /\ got' = [got EXCEPT ![r][Head(inbox[r]).by] = Head(inbox[r]).n]
    /\ inbox' = [inbox EXCEPT ![r] = Tail(@)]

FanoutNext ==
    \E r \in Readers :
        \/ \E a \in Authors : Offer(r, a, offered'[r][a])
        \/ \E i \in DOMAIN inbox[r] : Lose(r, i)
        \/ Receive(r)

FanoutSpec == FanoutInit /\ [][FanoutNext]_fanoutVars

=============================================================================
