---------------------------- MODULE TokenRegister ----------------------------
(***************************************************************************)
(* What looking up an API token promises, whatever lies between the caller *)
(* and the database: the token as it was at some moment of the call, or an *)
(* error.  A version of the token is a number, and an update raises it.    *)
(***************************************************************************)
EXTENDS Integers

CONSTANT Readers

VARIABLES
    value,    \* version of the stored token
    open,     \* versions the token has had since the reader's call began
    answer    \* what the reader's last successful call returned

vars == <<value, open, answer>>

Deleted == -1

RegisterInit ==
    /\ value = 0
    /\ open = [r \in Readers |-> {}]
    /\ answer = [r \in Readers |-> 0]

\* Readers whose call is under way may see the new version, or an older one.
Seeing(v) == [r \in Readers |-> IF open[r] = {} THEN {} ELSE open[r] \cup {v}]

Update ==
    /\ value # Deleted
    /\ value' \in Nat /\ value' > value
    /\ open' = Seeing(value')
    /\ UNCHANGED answer

Delete ==
    /\ value # Deleted
    /\ value' = Deleted /\ open' = Seeing(Deleted)
    /\ UNCHANGED answer

Call(r) ==
    /\ open[r] = {}
    /\ open' = [open EXCEPT ![r] = {value}]
    /\ UNCHANGED <<value, answer>>

Return(r) ==
    /\ \E v \in open[r] : answer' = [answer EXCEPT ![r] = v]
    /\ open' = [open EXCEPT ![r] = {}]
    /\ UNCHANGED value

Fail(r) ==
    /\ open' = [open EXCEPT ![r] = {}]
    /\ UNCHANGED <<value, answer>>

RegisterNext ==
    Update \/ Delete \/ \E r \in Readers : Call(r) \/ Return(r) \/ Fail(r)

RegisterSpec == RegisterInit /\ [][RegisterNext]_vars
=============================================================================
