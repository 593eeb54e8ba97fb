--------------------------- MODULE AdmissionContract ---------------------------
(***************************************************************************)
(* What admission promises about a request, whatever is lost or dies on    *)
(* the way: its key is given one task and one intent, for ever; the task   *)
(* is linked before it is started and before it ends; it is started after  *)
(* it was accepted and not after it ended; and what was accepted is never  *)
(* forgotten.  Lost replies, retries, deaths of the service and its        *)
(* restarts are steps nobody sees here.  Admission implements this.        *)
(***************************************************************************)
CONSTANTS Tasks, Keys, Intents, NoKey, NoIntent

VARIABLES
  key,      \* the request key each task was accepted under
  intent,   \* and its material intent
  life      \* how far each task has come

vars == <<key, intent, life>>

Init ==
  /\ key = [t \in Tasks |-> NoKey]
  /\ intent = [t \in Tasks |-> NoIntent]
  /\ life = [t \in Tasks |-> "absent"]

\* A plain task is ready at once; a coordinated one waits for its link.
Accept(t, k, i) ==
  /\ life[t] = "absent"
  /\ \A u \in Tasks : key[u] # k
  /\ key' = [key EXCEPT ![t] = k]
  /\ intent' = [intent EXCEPT ![t] = i]
  /\ life' \in {[life EXCEPT ![t] = "accepted"], [life EXCEPT ![t] = "ready"]}

Comes(t, from, to) ==
  /\ life[t] \in from
  /\ life' = [life EXCEPT ![t] = to]
  /\ UNCHANGED <<key, intent>>

Link(t) == Comes(t, {"accepted"}, "ready")
Start(t) == Comes(t, {"ready"}, "started")
End(t) == Comes(t, {"ready", "started"}, "ended")

Next ==
  \E t \in Tasks :
    \/ \E k \in Keys, i \in Intents : Accept(t, k, i)
    \/ Link(t) \/ Start(t) \/ End(t)

Spec == Init /\ [][Next]_vars
=============================================================================
