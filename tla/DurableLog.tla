----------------------------- MODULE DurableLog -----------------------------
(***************************************************************************)
(* What the sample storage promises those who hand it samples: a log of    *)
(* which a failure takes the end.  Samples are numbered in the order they  *)
(* are offered.  Each has its turn once, in this order: it is recorded     *)
(* then or never.  To make room the log forgets its oldest samples.  What  *)
(* it shows is from time to time kept for good; a failure brings back what *)
(* was kept last, never a mixture of old and new and never a sample that   *)
(* was lost before.                                                        *)
(*                                                                         *)
(* Nothing is said here of tables, row ids, transactions or threads:       *)
(* Storage (board/storage.c) implements this specification.                *)
(***************************************************************************)
EXTENDS Naturals

CONSTANT Samples        \* the samples, numbers from 1 on

VARIABLES
    passed,     \* the samples up to this one have had their turn
    shown,      \* the samples a reader of the log finds
    kept        \* the samples a power failure leaves

logVars == <<passed, shown, kept>>

Init == passed = 0 /\ shown = {} /\ kept = {}

\* The turns of samples pass, up to s or beyond.
PassesBy(s) == passed' \in Nat /\ passed' >= s

\* What may be shown once s is recorded: the oldest samples are forgotten.
Forgetful(s, left) ==
    /\ left \subseteq shown \cup {s}
    /\ \A old \in (shown \cup {s}) \ left : \A x \in left : old < x

\* Sample s, whose turn it is, is shown; it is kept at once or not yet.
Record(s) ==
    /\ passed < s
    /\ PassesBy(s)
    /\ Forgetful(s, shown')
    /\ \/ UNCHANGED kept
       \/ kept = shown /\ kept' = shown'

\* Samples are never recorded: the log is closed, full, broken or restarted.
GiveUp == PassesBy(passed) /\ UNCHANGED <<shown, kept>>

Keep == kept' = shown /\ UNCHANGED <<passed, shown>>

Lose == shown' = kept /\ PassesBy(passed) /\ UNCHANGED kept

Next == (\E s \in Samples : Record(s)) \/ GiveUp \/ Keep \/ Lose

Spec == Init /\ [][Next]_logVars
=============================================================================
