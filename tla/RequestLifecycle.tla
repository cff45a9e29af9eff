--------------------------- MODULE RequestLifecycle ---------------------------
(***************************************************************************)
(* What the master promises for a request that is not repeatable, whatever *)
(* the transport, the connection and the other requests do: it is sent at  *)
(* most 1 + Budget times, one attempt after the other, it goes back to    *)
(* the queue only while it has retries left, and once it has emitted       *)
(* 'done', was lost to an exception or was abandoned by destroy(), nothing *)
(* happens to it any more.                                                 *)
(***************************************************************************)
EXTENDS Naturals

CONSTANTS Request, Budget

VARIABLES status, tries

Pending == {"queued", "sent", "settling"}
Final == {"done", "lost", "abandoned"}

Init ==
    /\ status = [r \in Request |-> "new"]
    /\ tries = [r \in Request |-> 0]

Move(r, from, to) ==
    /\ status[r] = from
    /\ status' = [status EXCEPT ![r] = to]

Submit(r) == Move(r, "new", "queued") /\ UNCHANGED tries

Send(r) ==
    /\ Move(r, "queued", "sent")
    /\ tries[r] <= Budget[r]
    /\ tries' = [tries EXCEPT ![r] = @ + 1]

\* The exchange ended, or the request was cancelled before it was sent.
End(r) == (Move(r, "sent", "settling") \/ Move(r, "queued", "settling")) /\ UNCHANGED tries

Retry(r) ==
    /\ Move(r, "settling", "queued")
    /\ tries[r] <= Budget[r]
    /\ UNCHANGED tries

Finish(r) == Move(r, "settling", "done") /\ tries' = [tries EXCEPT ![r] = 0]

Lose(r) == (Move(r, "queued", "lost") \/ Move(r, "settling", "lost")) /\ UNCHANGED tries

\* destroy() drops the requests that are queued or in the transport, at once.
Abandon ==
    /\ status' = [r \in Request |->
           IF status[r] \in {"queued", "sent"} THEN "abandoned" ELSE status[r]]
    /\ UNCHANGED tries

Next ==
    \/ Abandon
    \/ \E r \in Request :
          Submit(r) \/ Send(r) \/ End(r) \/ Retry(r) \/ Finish(r) \/ Lose(r)

Spec == Init /\ [][Next]_<<status, tries>>

=============================================================================
