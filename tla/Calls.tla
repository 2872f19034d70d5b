-------------------------------- MODULE Calls ---------------------------------
(***************************************************************************)
(* One call of a function of the program that keeps no state of its own:   *)
(* its name and arguments, then what it returned.  The modules of these    *)
(* functions each add a step that answers the calls of their functions.    *)
(***************************************************************************)
VARIABLES
    call,       \* fn names the function; the other fields are its arguments
    answer      \* nothing yet, or the value returned

cvars == <<call, answer>>

Pending == [returned |-> FALSE]
Answered == answer.returned
Asked(fn) == call.fn = fn /\ ~Answered
Return(value) == answer' = [returned |-> TRUE, value |-> value] /\ UNCHANGED call
Got(fn) == call.fn = fn /\ Answered
===============================================================================
