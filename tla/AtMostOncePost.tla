--------------------------- MODULE AtMostOncePost ---------------------------
(* What a caller of AcmeClient.signed_post_raw may rely on: a signed POST    *)
(* takes effect at the ACME server at most once, success is reported only of *)
(* a POST that took effect, and a failed POST is of unknown effect: it may   *)
(* have taken effect, may still take effect later, or may never do.          *)
EXTENDS Naturals

CONSTANT Calls              \* the signed POSTs the program makes

VARIABLES phase,            \* phase[c]: how far call c has come
          effects           \* effects[c]: how often call c took effect

vars == <<phase, effects>>

Phases == {"todo", "open", "ok", "failed"}

TypeOK == /\ phase \in [Calls -> Phases]
          /\ effects \in [Calls -> {0, 1}]

Init == /\ phase = [c \in Calls |-> "todo"]
        /\ effects = [c \in Calls |-> 0]

Begin(c) == /\ phase[c] = "todo"
            /\ phase' = [phase EXCEPT ![c] = "open"]
            /\ UNCHANGED effects

\* The effect may come after the caller was told that the call failed.
Effect(c) == /\ phase[c] \in {"open", "failed"}
             /\ effects[c] = 0
             /\ effects' = [effects EXCEPT ![c] = 1]
             /\ UNCHANGED phase

Succeed(c) == /\ phase[c] = "open"
              /\ effects[c] = 1
              /\ phase' = [phase EXCEPT ![c] = "ok"]
              /\ UNCHANGED effects

Fail(c) == /\ phase[c] = "open"
           /\ phase' = [phase EXCEPT ![c] = "failed"]
           /\ UNCHANGED effects

Next == \E c \in Calls : Begin(c) \/ Effect(c) \/ Succeed(c) \/ Fail(c)

Spec == Init /\ [][Next]_vars
=============================================================================
