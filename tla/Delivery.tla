------------------------------ MODULE Delivery ------------------------------
(***************************************************************************)
(* What execute promises to those who call it for a duty, without nonces,  *)
(* fees, blocks and confirmations.                                         *)
(*                                                                         *)
(*   - It returns only for a duty whose proof is there to stay.            *)
(*   - It sends for the duty of a running call only, and nothing when a    *)
(*     transaction of the duty is known, but after an attempt of which it  *)
(*     cannot say how it ended.                                            *)
(*   - Any other error means what it says: no transaction of the duty is   *)
(*     left behind, or there is no need for one any more.                  *)
(*                                                                         *)
(* Execution implements it.                                                *)
(***************************************************************************)
CONSTANTS Callers, Duties

NoDuty == 0

VARIABLES
  sends,           \* whether the process is configured to send (an input)
  calls,           \* the duty of each caller's call, NoDuty without a call
  known,           \* the transactions in the mempool or in blocks
  lasting,         \* duties whose proof is there to stay
  settled,         \* duties their caller is done with
  glimpsed,        \* of those, seen proven before the proof was lasting
  doubtful         \* duties with an attempt whose end is unclear

deliveryVars == <<calls, known, lasting, settled, glimpsed, doubtful>>

Init ==
  /\ calls = [c \in Callers |-> NoDuty]
  /\ known = {} /\ lasting = {}
  /\ settled = {} /\ glimpsed = {} /\ doubtful = {}

Unpaid(duty) == \A x \in known : x.duty # duty

(* Transactions move, are replaced or forgotten. *)
World == known' \subseteq known /\ UNCHANGED <<calls, settled, glimpsed, doubtful>>

Ask(c) ==
  /\ calls[c] = NoDuty
  /\ \E d \in Duties \ settled :
       /\ \A e \in Callers : calls[e] # d
       /\ calls' = [calls EXCEPT ![c] = d]
  /\ UNCHANGED <<known, settled, glimpsed, doubtful>>

(* The caller sees for itself that there is nothing to do. *)
Skip(c) ==
  /\ calls[c] = NoDuty
  /\ \E d \in Duties \ settled :
       /\ settled' = settled \cup {d}
       /\ glimpsed' = IF d \in lasting THEN glimpsed ELSE glimpsed \cup {d}
  /\ UNCHANGED <<calls, known, doubtful>>

Pays(c) ==
  /\ calls[c] # NoDuty
  /\ \A x, y \in known' \ known : x = y
  /\ \A x \in known' \ known :
       x.duty = calls[c] /\ (x.duty \in doubtful \/ Unpaid(x.duty))

Pay(c) == Pays(c) /\ UNCHANGED <<calls, settled, glimpsed, doubtful>>

End(c) == calls[c] # NoDuty /\ calls' = [calls EXCEPT ![c] = NoDuty]

Return(c) ==
  /\ sends => calls[c] \in lasting
  /\ End(c)
  /\ settled' = settled \cup {calls[c]}
  /\ UNCHANGED <<known, glimpsed, doubtful>>

(* A call may stop without a trace. *)
MayStop(c) == calls[c] \in doubtful \cup lasting \/ Unpaid(calls[c])

Throw(c) ==
  /\ MayStop(c)
  /\ End(c)
  /\ UNCHANGED <<known, settled, glimpsed, doubtful>>

(* The answer is lost, or did not come in time. *)
Lose(c) ==
  /\ Pays(c)
  /\ End(c)
  /\ doubtful' = doubtful \cup {calls[c]}
  /\ UNCHANGED <<settled, glimpsed>>

Restart ==
  /\ \E D \in SUBSET {calls[c] : c \in {b \in Callers : calls[b] # NoDuty}} :
       /\ doubtful' = doubtful \cup D
       /\ \A c \in Callers : calls[c] \in D \cup {NoDuty} \/ MayStop(c)
  /\ calls' = [c \in Callers |-> NoDuty]
  /\ UNCHANGED <<known, settled, glimpsed>>

Next ==
  /\ lasting \subseteq lasting'
  /\ \/ World \/ Restart
     \/ \E c \in Callers : Ask(c) \/ Skip(c) \/ Pay(c) \/ Return(c) \/ Throw(c) \/ Lose(c)

Spec == Init /\ [][Next]_deliveryVars
=============================================================================
