----------------------------- MODULE StreamCopy -----------------------------
(***************************************************************************)
(* What copying a stream into a file promises, with no buffer and no       *)
(* count: at every moment the file holds a beginning of the stream, and    *)
(* the copy is called complete only when the file holds all the stream had *)
(* to give.  A copy may fail at any time.                                  *)
(***************************************************************************)
EXTENDS Integers, Sequences

VARIABLES
  source,   \* what the stream yields before it ends or breaks
  copy,     \* what is in the file
  verdict   \* "copying", "complete", "failed"

cvars == <<source, copy, verdict>>

(* s is a beginning of t. *)
Begins(s, t) == Len(s) <= Len(t) /\ \A i \in 1..Len(s) : s[i] = t[i]

Init == /\ copy = <<>>
        /\ verdict = "copying"

Extend == /\ verdict = "copying"
          /\ Begins(copy, copy')
          /\ Begins(copy', source)
          /\ UNCHANGED <<source, verdict>>

Complete == /\ verdict = "copying"
            /\ copy = source
            /\ verdict' = "complete"
            /\ UNCHANGED <<source, copy>>

(* What was written before the failure stays in the file. *)
Fail == /\ verdict = "copying"
        /\ Begins(copy, copy')
        /\ Begins(copy', source)
        /\ verdict' = "failed"
        /\ UNCHANGED source

Next == Extend \/ Complete \/ Fail

Spec == Init /\ [][Next]_cvars

=============================================================================
