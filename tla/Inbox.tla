------------------------------- MODULE Inbox -------------------------------
(***************************************************************************)
(* What inbound mail promises, without queue, workers and steps: a mail    *)
(* that arrived is put on a ticket at most once, on one of the instance it *)
(* was addressed to, and stays there; a mail given up is never put on a    *)
(* ticket later.  InboundMail is shown to implement this.                  *)
(***************************************************************************)
EXTENDS Naturals

CONSTANTS
    Incoming,     \* the mails
    DueOf(_),     \* the instance a letter is addressed to
    None          \* no letter

VARIABLES
    letter,  \* what arrived
    box      \* where each mail is, the instances it was kept in, in how many rows

vars == <<letter, box>>

Waiting == [place |-> "waiting", homes |-> {}, copies |-> 0]

Init ==
    /\ letter = [s \in Incoming |-> None]
    /\ box = [s \in Incoming |-> Waiting]

Arrive(s) ==
    /\ letter[s] = None
    /\ letter'[s] # None
    /\ \A other \in Incoming \ {s} : letter'[other] = letter[other]
    /\ UNCHANGED box

Keep(s) ==
    /\ letter[s] # None
    /\ UNCHANGED letter
    /\ box[s] = Waiting
    /\ box' = [box EXCEPT ![s] = [place |-> "kept", homes |-> {DueOf(letter[s])}, copies |-> 1]]

GiveUp(s) ==
    /\ letter[s] # None
    /\ UNCHANGED letter
    /\ box[s] = Waiting
    /\ box' = [box EXCEPT ![s].place = "gone"]

Next == \E s \in Incoming : Arrive(s) \/ Keep(s) \/ GiveUp(s)

Spec == Init /\ [][Next]_vars
=============================================================================
