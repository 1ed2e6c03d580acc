--------------------------- MODULE AgreedConnection ---------------------------
(***************************************************************************)
(* What connect and wait_connect promise, without datagrams, retries or    *)
(* sequence-number arithmetic: the listener settles on the number of one   *)
(* caller, a caller learns that it is the one no earlier than that, and    *)
(* the listener considers itself connected only to a caller that is not    *)
(* left waiting. Callers may follow one another, each with a number of its *)
(* own; either side may fail at any time.                                  *)
(***************************************************************************)
EXTENDS Naturals

CONSTANT Callers   \* the numbers callers may choose

VARIABLES
  caller,     \* "calling", "answered", "connected", "refused" or "failed"
  number,     \* the number of the present caller
  called,     \* all numbers chosen so far
  listener,   \* "listening", "heard", "connected" or "failed"
  accepted    \* the number the listener has settled on: a set of at most one

callerVars == <<caller, number, called>>
vars       == <<caller, number, called, listener, accepted>>

Init ==
  /\ caller = "calling"
  /\ number \in Callers
  /\ called = {number}
  /\ listener = "listening"
  /\ accepted = {}

\* The listener may hear a caller that is no longer there.
Hear ==
  /\ listener = "listening"
  /\ listener' = "heard"
  /\ \E n \in called : accepted' = {n}
  /\ UNCHANGED callerVars

Answer ==
  /\ caller = "calling"
  /\ accepted = {number}
  /\ caller' = "answered"
  /\ UNCHANGED <<number, called, listener, accepted>>

Connect ==
  /\ caller = "answered"
  /\ caller' = "connected"
  /\ UNCHANGED <<number, called, listener, accepted>>

\* A caller gives up before it is answered, or fails.
GiveUp ==
  /\ \/ caller = "calling" /\ caller' \in {"refused", "failed"}
     \/ caller = "answered" /\ caller' = "failed"
  /\ UNCHANGED <<number, called, listener, accepted>>

CallAgain ==
  /\ caller \in {"connected", "refused", "failed"}
  /\ caller' = "calling"
  /\ number' \in Callers \ called
  /\ called' = called \union {number'}
  /\ UNCHANGED <<listener, accepted>>

\* If the caller the listener has settled on is still there, it knows.
Establish ==
  /\ listener = "heard"
  /\ number \in accepted => caller \notin {"calling", "refused"}
  /\ listener' = "connected"
  /\ UNCHANGED <<callerVars, accepted>>

ListenerFails ==
  /\ listener \in {"listening", "heard"}
  /\ listener' = "failed"
  /\ UNCHANGED <<callerVars, accepted>>

Next ==
  \/ Hear \/ Answer \/ Connect \/ GiveUp \/ CallAgain \/ Establish
  \/ ListenerFails

Spec == Init /\ [][Next]_vars
=============================================================================
