---------------------------- MODULE JobLifecycle ----------------------------
(***************************************************************************)
(* What the server promises about one job, whatever worker, sweep, client  *)
(* or restart acts on it: it waits, at most one worker holds it at a time, *)
(* it changes hands only by going back to waiting, and it is settled once, *)
(* with a result that never changes.  Several jobs may step together (a    *)
(* bulk UPDATE, a migration, a restart).                                   *)
(***************************************************************************)
CONSTANTS Jobs, Workers, NULL

VARIABLE life

Results == {"completed", "failed", "cancelled", "timeout"}

New           == [phase |-> "new", holder |-> NULL, result |-> NULL]
Waiting       == [phase |-> "waiting", holder |-> NULL, result |-> NULL]
HeldBy(w)     == [phase |-> "held", holder |-> w, result |-> NULL]
SettledAs(r)  == [phase |-> "settled", holder |-> NULL, result |-> r]

Lives == {New, Waiting} \cup {HeldBy(w) : w \in Workers} \cup {SettledAs(r) : r \in Results}

(* only a holder completes or times out a job; anyone may fail or cancel it *)
LegalStep(a, b) ==
    \/ a = b
    \/ a = New /\ b \in {Waiting, SettledAs("failed")}
    \/ a = Waiting /\ \/ \E w \in Workers : b = HeldBy(w)
                      \/ b \in {SettledAs("failed"), SettledAs("cancelled")}
    \/ /\ \E w \in Workers : a = HeldBy(w)
       /\ b = Waiting \/ \E r \in Results : b = SettledAs(r)

Init == life = [j \in Jobs |-> New]

Next == /\ life' \in [Jobs -> Lives]
        /\ \A j \in Jobs : LegalStep(life[j], life'[j])

Spec == Init /\ [][Next]_life
=============================================================================
