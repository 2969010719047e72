------------------------------ MODULE AskReply ------------------------------
(***************************************************************************)
(* What a user at the console relies on: a question the manager has put to *)
(* a host ("s" or "p") is answered, by one reply, which is shown before    *)
(* the next question is put.  man.c: "Wait for reply from host".           *)
(***************************************************************************)
VARIABLE talk   \* where the conversation stands

Init == talk = "idle"

Question == talk = "idle" /\ talk' = "asked"
Answer == talk = "asked" /\ talk' = "answered"
Show == talk = "answered" /\ talk' = "idle"

Next == Question \/ Answer \/ Show

Spec == Init /\ [][Next]_talk /\ WF_talk(Answer) /\ WF_talk(Show)

=============================================================================
