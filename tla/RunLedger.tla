------------------------------ MODULE RunLedger ------------------------------
(***************************************************************************)
(* What the chat_runs table promises of each run, whatever its writers do  *)
(* in between: a run is inserted once, as running; it settles, and a run   *)
(* that has settled may settle otherwise but never runs again; the text    *)
(* stored for it never shrinks unless a user deletes the assistant's       *)
(* message; a row that is deleted never comes back.                        *)
(***************************************************************************)
EXTENDS Naturals

CONSTANTS Runs, MaxText

VARIABLES
  ledger,   \* status and text stored for each run
  wiped     \* runs whose assistant message a user has deleted

Settled == {"done", "error", "cancelled"}

Present(r) == ledger[r].st \in {"running"} \union Settled

Init == /\ ledger = [r \in Runs |-> [st |-> "absent", text |-> 0]]
        /\ wiped = {}

Insert(r) ==
  /\ ledger[r].st = "absent"
  /\ ledger' = [ledger EXCEPT ![r] = [st |-> "running", text |-> 0]]
  /\ UNCHANGED wiped

Settle(r) ==
  /\ Present(r)
  /\ \E st \in Settled, txt \in 0..MaxText :
       /\ r \in wiped \/ txt >= ledger[r].text
       /\ ledger' = [ledger EXCEPT ![r] = [st |-> st, text |-> txt]]
  /\ UNCHANGED wiped

Remove(S) ==
  /\ \A r \in S : Present(r)
  /\ ledger' = [r \in Runs |-> IF r \in S THEN [st |-> "deleted", text |-> 0]
                               ELSE ledger[r]]
  /\ UNCHANGED wiped

Wipe(r) ==
  /\ Present(r)
  /\ ledger' = [ledger EXCEPT ![r].text = 0]
  /\ wiped' = wiped \union {r}

Next ==
  \/ \E r \in Runs : Insert(r) \/ Settle(r) \/ Wipe(r)
  \/ \E S \in SUBSET Runs : Remove(S)

Spec == Init /\ [][Next]_<<ledger, wiped>>
=============================================================================
