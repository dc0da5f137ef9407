----------------------------- MODULE RtosNotify -----------------------------
(***************************************************************************)
(* Direct-to-task notifications of the FreeRTOS kernel the STM32 node is   *)
(* built with.  A task owns one notification record per index: the state   *)
(* byte (ucNotifyState) and the 32-bit value (ulNotifiedValue), here the   *)
(* set of its bits that are on.  Every use in the node is xTaskNotifyWait  *)
(* with no bits cleared on entry and xTaskNotifyFromISR with eSetBits.     *)
(***************************************************************************)

States == {"none", "waiting", "received"}

\* The notification records over a set of bits.
Notification(Bits) == [state : States, value : SUBSET Bits]

\* A task that was just created has neither a value nor a pending state.
Quiet == [state |-> "none", value |-> {}]

\* eSetBits from an ISR: the bits accumulate and the state becomes RECEIVED,
\* whatever it was: two notifications before a wait are one.
Notify(n, bits) == [state |-> "received", value |-> n.value \cup bits]

\* The wait may return at once, or ends a block, when a notification is there.
Received(n) == n.state = "received"

\* Entering a wait with nothing pending: the task is taken off the ready list.
Block(n) == [n EXCEPT !.state = "waiting"]

TakeKeepsState(n, bits) == [n EXCEPT !.value = @ \ bits]

\* Leaving a wait with pdTRUE: only the bits named for the exit are cleared.
TakeAndClear(n, bits) == [state |-> "none", value |-> n.value \ bits]

\* Leaving a wait with pdFALSE (the timeout ran out): no bit is cleared.
GiveUp(n) == [n EXCEPT !.state = "none"]

\* ulTaskNotifyValueClear touches the value and leaves the state alone.
ValueClear(n, bits) == [n EXCEPT !.value = @ \ bits]
=============================================================================
