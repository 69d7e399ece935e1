---------------------------- MODULE PreviewHistory ----------------------------
(***************************************************************************)
(* What the Studio promises for each preview request: a history of         *)
(* attempts of which only the newest can be open, a new attempt only after *)
(* the newest has ended, and an end that is never revised.                 *)
(* PreviewJobs implements this specification.                              *)
(***************************************************************************)
EXTENDS Naturals, Sequences

CONSTANT Requests   \* preview request hashes

VARIABLE history    \* what became of the attempts of each request

Outcomes == {"open", "succeeded", "failed"}

Init == history = [r \in Requests |-> << >>]

Ended(h) == h = << >> \/ h[Len(h)] # "open"

Start(r) ==
  /\ Ended(history[r])
  /\ history' = [history EXCEPT ![r] = Append(@, "open")]

End(r) ==
  /\ ~Ended(history[r])
  /\ \E o \in Outcomes \ {"open"} :
       history' = [history EXCEPT ![r] = [@ EXCEPT ![Len(@)] = o]]

Next == \E r \in Requests : Start(r) \/ End(r)

Spec == Init /\ [][Next]_history
=============================================================================
