---------------------------- MODULE CommandSlot ----------------------------
(***************************************************************************)
(* What a one-slot command channel between a caller and a worker thread   *)
(* promises, as AudioOutput (src/output/OutputControl.cxx) implements it  *)
(* towards its output thread: the caller                                   *)
(* stores a command only in an empty slot, the worker performs the stored  *)
(* command and empties the slot, and a caller that waits for its command   *)
(* returns only once the slot is empty again.  Nothing is said about what  *)
(* a command does.                                                         *)
(*                                                                         *)
(* One slot per worker (CONSTANT Slots); each slot has at most one caller  *)
(* waiting on it.                                                          *)
(***************************************************************************)
CONSTANTS
    Slots,      \* the workers, one command slot each
    Commands,   \* the commands a slot can hold
    None        \* the empty slot

ASSUME None \notin Commands

VARIABLES
    slot,       \* the command stored for each worker, or None
    waiting     \* a caller sleeps until this slot's command is done

vars == <<slot, waiting>>

Init ==
    /\ slot = [s \in Slots |-> None]
    /\ waiting = [s \in Slots |-> FALSE]

\* Store a command in an empty slot; with wait, the caller then sleeps
\* until it is done.  A caller already waiting may chain its next command
\* once the slot is empty.
Post(s, x, wait) ==
    /\ slot[s] = None
    /\ slot' = [slot EXCEPT ![s] = x]
    /\ waiting' = IF wait THEN [waiting EXCEPT ![s] = TRUE] ELSE waiting

\* The worker performs the stored command and empties the slot.
Perform(s) ==
    /\ slot[s] # None
    /\ slot' = [slot EXCEPT ![s] = None]
    /\ UNCHANGED waiting

\* The waiting caller returns: its command has been performed.
Return(s) ==
    /\ waiting[s] /\ slot[s] = None
    /\ waiting' = [waiting EXCEPT ![s] = FALSE]
    /\ UNCHANGED slot

Next ==
    \E s \in Slots :
        \/ \E x \in Commands, wait \in BOOLEAN : Post(s, x, wait)
        \/ Perform(s)
        \/ Return(s)

Spec == Init /\ [][Next]_vars

=============================================================================
