------------------------------ MODULE LeaveGuard ------------------------------
(***************************************************************************)
(* What the provider promises about leaving its group: things become busy  *)
(* and idle one at a time, none twice, and the provider leaves only at an  *)
(* instant when nothing is busy. A thing may still become busy afterwards: *)
(* a request already accepted is served after the provider left.           *)
(***************************************************************************)
CONSTANT Things
VARIABLES busy, gone

Init == busy = {} /\ gone = FALSE

Begin(t) == /\ t \notin busy
            /\ busy' = busy \cup {t}
            /\ UNCHANGED gone

End(t) == /\ t \in busy
          /\ busy' = busy \ {t}
          /\ UNCHANGED gone

Leave == /\ busy = {}
         /\ gone' = TRUE
         /\ UNCHANGED busy

Next == (\E t \in Things : Begin(t) \/ End(t)) \/ Leave

Spec == Init /\ [][Next]_<<busy, gone>>

==============================================================================
