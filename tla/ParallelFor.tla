---------------------------- MODULE ParallelFor ----------------------------
(***************************************************************************)
(* What a parallel loop of the thread pool (for_mt, for_mt_background with  *)
(* its wait, parallel) promises the code that calls it: every item of work  *)
(* of a call is executed once, only after the call was made and only before *)
(* it returns, and the call returns when all its items have been executed.  *)
(* The function object of a call captures local variables of the caller by *)
(* reference, so that an item executed after the return would use variables *)
(* that no longer exist.                                                    *)
(***************************************************************************)
EXTENDS Naturals

CONSTANTS Calls,        \* the calls that can be made
          Items(_)      \* the items of work of a call

VARIABLES called,       \* the calls made
          begun,        \* how often each item of work was begun
          ended,        \* the items of work that were completed
          returned      \* the calls that have returned

vars == <<called, begun, ended, returned>>

AllItems == UNION {Items(c) : c \in Calls}

Init ==
    /\ called = {}
    /\ begun = [w \in AllItems |-> 0]
    /\ ended = {}
    /\ returned = {}

Call(c) ==
    /\ c \notin called
    /\ called' = called \union {c}
    /\ UNCHANGED <<begun, ended, returned>>

Begin(c, w) ==
    /\ c \in called \ returned
    /\ w \in Items(c)
    /\ begun[w] = 0
    /\ begun' = [begun EXCEPT ![w] = 1]
    /\ UNCHANGED <<called, ended, returned>>

End(c, w) ==
    /\ c \in called \ returned
    /\ w \in Items(c) \ ended
    /\ begun[w] = 1
    /\ ended' = ended \union {w}
    /\ UNCHANGED <<called, begun, returned>>

Return(c) ==
    /\ c \in called \ returned
    /\ Items(c) \subseteq ended
    /\ returned' = returned \union {c}
    /\ UNCHANGED <<called, begun, ended>>

(* Two steps at once: a thread begins an item whose execution makes a call. *)
BeginAndCall(c, w, d) ==
    /\ c \in called \ returned
    /\ w \in Items(c)
    /\ begun[w] = 0
    /\ d \notin called
    /\ begun' = [begun EXCEPT ![w] = 1]
    /\ called' = called \union {d}
    /\ UNCHANGED <<ended, returned>>

Next ==
    \/ \E c \in Calls \ called : Call(c)
    \/ \E c \in called \ returned :
        \/ Return(c)
        \/ \E w \in Items(c) :
            \/ Begin(c, w) \/ End(c, w)
            \/ \E d \in Calls \ called : BeginAndCall(c, w, d)

Spec == Init /\ [][Next]_vars
=============================================================================
