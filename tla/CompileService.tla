--------------------------- MODULE CompileService ---------------------------
(***************************************************************************)
(* What the compiler cache promises its callers, with no cache in sight:   *)
(* every request is answered with what compiling it would produce, or with *)
(* the error compiling it would produce, whatever the two cache tiers and  *)
(* the other requests do meanwhile.  A caller whose process dies gets no   *)
(* answer.                                                                 *)
(***************************************************************************)
CONSTANTS
    Thread,                 \* the callers
    Request,                \* everything a caller can ask for
    Answer(_),              \* the one correct answer to a request
    NoAnswer                \* no answer yet

VARIABLES
    wanted,                 \* wanted[t]: what t asked for last
    answer                  \* answer[t]: NoAnswer while t waits

serviceVars == <<wanted, answer>>

Init == /\ wanted \in [Thread -> Request]
        /\ answer \in [Thread -> {NoAnswer} \cup { Answer(r) : r \in Request }]
        /\ \A t \in Thread : answer[t] = NoAnswer

(* A caller may ask again whenever it is not waiting, and also after its   *)
(* process died under an earlier request.                                  *)
Ask(t, r) == /\ wanted' = [wanted EXCEPT ![t] = r]
             /\ answer' = [answer EXCEPT ![t] = NoAnswer]

Reply(t) == /\ answer[t] = NoAnswer
            /\ answer' = [answer EXCEPT ![t] = Answer(wanted[t])]
            /\ UNCHANGED wanted

Next == \E t \in Thread : Reply(t) \/ \E r \in Request : Ask(t, r)

Spec == Init /\ [][Next]_serviceVars
=============================================================================
