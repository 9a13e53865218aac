------------------------------- MODULE SnuCalls -------------------------------
(***************************************************************************)
(* What the connection manager promises to a caller, without connections,   *)
(* generations, waiters or sockets: a call is open until it is settled      *)
(* once; a request goes over the wire at most once; an answer is given only *)
(* to a call whose request went out.  SnuBridge implements this.            *)
(***************************************************************************)
EXTENDS Naturals

CONSTANTS
  Callers,   \* tasks that make calls
  Askers     \* those whose calls send a request (the others wait for a push)

VARIABLES
  open,      \* callers with an unsettled call
  calls,     \* the number of calls each caller has made
  answered,  \* callers whose last call was settled by an answer
  wire       \* requests sent: <<caller, number of the call>>

callsVars == <<open, calls, answered, wire>>

Init ==
  /\ open = {} /\ answered = {} /\ wire = {}
  /\ calls = [c \in Callers |-> 0]

\* A new call; it may be refused at once.
Begin(c) ==
  /\ c \notin open
  /\ calls' = [calls EXCEPT ![c] = @ + 1]
  /\ open' \in {open, open \cup {c}}
  /\ answered' = answered \ {c}
  /\ UNCHANGED wire

\* The request of an open call goes out, once.
Send(c) ==
  /\ c \in open \cap Askers
  /\ <<c, calls[c]>> \notin wire
  /\ wire' = wire \cup {<<c, calls[c]>>}
  /\ UNCHANGED <<open, calls, answered>>

\* One frame may answer several calls.
Answer(C) ==
  /\ C \subseteq open
  /\ \A c \in C \cap Askers : <<c, calls[c]>> \in wire
  /\ open' = open \ C
  /\ answered' = answered \cup C
  /\ UNCHANGED <<calls, wire>>

\* A lost connection or a timer ends calls without an answer.
GiveUp(C) ==
  /\ C \subseteq open
  /\ open' = open \ C
  /\ UNCHANGED <<calls, answered, wire>>

Next ==
  \/ \E c \in Callers : Begin(c) \/ Send(c)
  \/ \E C \in SUBSET Callers : Answer(C) \/ GiveUp(C)

Spec == Init /\ [][Next]_callsVars
=============================================================================
