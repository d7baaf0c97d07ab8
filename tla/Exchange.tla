------------------------------ MODULE Exchange ------------------------------
(***************************************************************************)
(* What a client of the daemon may count on: the requests of a connection  *)
(* are answered one by one, in the order they were made, until the         *)
(* connection ends.                                                        *)
(***************************************************************************)
EXTENDS Naturals, Sequences

CONSTANT Clients

VARIABLES asked,    \* the number of requests made on each client's connection
          answers   \* the requests that the answers to it answer, in order

Init == /\ asked = [c \in Clients |-> 0]
        /\ answers = [c \in Clients |-> <<>>]

Ask(c) == /\ asked' = [asked EXCEPT ![c] = @ + 1]
          /\ UNCHANGED answers

Answer(c) == /\ Len(answers[c]) < asked[c]
             /\ answers' = [answers EXCEPT ![c] = Append(@, Len(@) + 1)]
             /\ UNCHANGED asked

HangUp(c) == /\ asked' = [asked EXCEPT ![c] = 0]
             /\ answers' = [answers EXCEPT ![c] = <<>>]

Next == \E c \in Clients : Ask(c) \/ Answer(c) \/ HangUp(c)

Spec == Init /\ [][Next]_<<asked, answers>>
=============================================================================
