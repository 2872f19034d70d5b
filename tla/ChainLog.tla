------------------------------- MODULE ChainLog -------------------------------
(***************************************************************************)
(* What the audit trail promises (ARCHITECTURE_SUMMARY, section 9): a log  *)
(* that only grows, one record at a time, each record carrying its own     *)
(* sequence number and the digest of everything recorded before it.        *)
(***************************************************************************)
EXTENDS Naturals, Sequences

CONSTANTS Events

VARIABLE lines

Digested(s) == [i \in 1..Len(s) |-> <<i - 1, <<s[i].ev, s[i].cut>>>>]

Init == lines = <<>>

Record(e) ==
    lines' = Append(lines, [seq |-> Len(lines), prev |-> Digested(lines),
                            ev |-> e, cut |-> 0])

Next == \E e \in Events : Record(e)

Spec == Init /\ [][Next]_lines
===============================================================================
