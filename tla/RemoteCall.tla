----------------------------- MODULE RemoteCall -----------------------------
(***************************************************************************)
(* What a call of the OSS client means to its caller: the server executes  *)
(* the request at most MaxTries times, a successful call was executed at   *)
(* least once, and nothing is executed once the call has returned.  A call *)
(* that failed may have been executed all the same.                        *)
(***************************************************************************)
EXTENDS Naturals

CONSTANTS Callers,    \* threads, with one call each
          MaxTries    \* how often a request may be sent

VARIABLES phase,      \* what the caller knows
          executed    \* how often the server has executed its request

CallInit == /\ phase = [c \in Callers |-> "calling"]
            /\ executed = [c \in Callers |-> 0]

Execute(c) == /\ phase[c] = "calling"  /\ executed[c] < MaxTries
              /\ executed' = [executed EXCEPT ![c] = @ + 1]
              /\ UNCHANGED phase

Succeed(c) == /\ phase[c] = "calling"  /\ executed[c] > 0
              /\ phase' = [phase EXCEPT ![c] = "ok"]
              /\ UNCHANGED executed

Fail(c) == /\ phase[c] = "calling"
           /\ phase' = [phase EXCEPT ![c] = "failed"]
           /\ UNCHANGED executed

CallNext == \E c \in Callers : Execute(c) \/ Succeed(c) \/ Fail(c)

CallSpec == CallInit /\ [][CallNext]_<<phase, executed>>
=============================================================================
