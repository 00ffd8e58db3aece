---------------------------- MODULE LlrpMailbox ----------------------------
(***************************************************************************)
(* What an LLRP connection promises its client, whatever the network does  *)
(* to the bytes: the reader's messages wait in one box in the order they   *)
(* were sent; a call takes out the first that answers what it asked for,   *)
(* or nothing; only closing the connection loses messages, the last ones.  *)
(***************************************************************************)
EXTENDS Sequences, SequencesExt

CONSTANTS NoMessage, Anything, ErrorType

VARIABLES
    box,      \* messages sent and not yet returned
    outcome   \* of the last call: [msg, type, id], the message and the request

Answers(m, type, id) ==
    /\ type # Anything => m.t \in {type, ErrorType}
    /\ id # 0 => m.id = id

Init == box = << >> /\ outcome.msg = NoMessage

Post == box' # << >> /\ box = Front(box') /\ UNCHANGED outcome

Take == \E i \in DOMAIN box :
    /\ box' = RemoveAt(box, i)
    /\ outcome'.msg = box[i]
    /\ Answers(box[i], outcome'.type, outcome'.id)
    /\ \A j \in 1 .. i - 1 : ~ Answers(box[j], outcome'.type, outcome'.id)

Nothing == outcome'.msg = NoMessage /\ UNCHANGED box

Close == IsPrefix(box', box) /\ UNCHANGED outcome

Next == Post \/ Take \/ Nothing \/ Close

Spec == Init /\ [][Next]_<<box, outcome>>
=============================================================================
