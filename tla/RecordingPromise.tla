-------------------------- MODULE RecordingPromise --------------------------
(***************************************************************************)
(* What a recording session promises to whoever opens the dataset later,  *)
(* independent of queues, threads and manifests: items of several streams  *)
(* are accepted while the session is open, reach the disk in the order     *)
(* they were accepted, and the session is declared complete at most once,  *)
(* after it was sealed and only when the disk holds all that was accepted. *)
(***************************************************************************)
EXTENDS Sequences, Naturals

CONSTANTS Streams,   \* names of the recorded streams
          Items      \* what a stream may carry

VARIABLES accepted,  \* [Streams -> Seq(Items)]: counted as received
          stored,    \* [Streams -> Seq(Items)]: durable
          sealed,    \* nothing more may be accepted
          verdict    \* "incomplete" until the session is declared complete

vars == <<accepted, stored, sealed, verdict>>

Init == /\ accepted = [s \in Streams |-> <<>>]
        /\ stored = [s \in Streams |-> <<>>]
        /\ sealed = FALSE
        /\ verdict = "incomplete"

(* Accepting an item may itself be the event that seals the session (an    *)
(* overflow, or a sample whose sequence is broken).                        *)
Accept(s, x) == /\ ~sealed
                /\ accepted' = [accepted EXCEPT ![s] = Append(@, x)]
                /\ sealed' \in BOOLEAN
                /\ UNCHANGED <<stored, verdict>>

Seal == /\ ~sealed
        /\ sealed' = TRUE
        /\ UNCHANGED <<accepted, stored, verdict>>

(* The disk follows the order of acceptance without skipping anything.     *)
Store(s) == /\ verdict = "incomplete"
            /\ Len(stored[s]) < Len(accepted[s])
            /\ stored' = [stored EXCEPT ![s] =
                            Append(@, accepted[s][Len(@) + 1])]
            /\ UNCHANGED <<accepted, sealed, verdict>>

Declare == /\ verdict = "incomplete"
           /\ sealed
           /\ stored = accepted
           /\ verdict' = "complete"
           /\ UNCHANGED <<accepted, stored, sealed>>

Next == \/ \E s \in Streams : \/ \E x \in Items : Accept(s, x)
                              \/ Store(s)
        \/ Seal
        \/ Declare

Spec == Init /\ [][Next]_vars
=============================================================================
