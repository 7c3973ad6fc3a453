------------------------------- MODULE Answers -------------------------------
(***************************************************************************)
(* What the HTTP server promises: connections are answered one at a time,  *)
(* in the order they came, each with a prefix of the one text that its own *)
(* request has for an answer; a connection is closed when the answer is    *)
(* complete, when it ended in an error that has a reason, or when the      *)
(* client is no longer there.                                              *)
(***************************************************************************)
EXTENDS Naturals, Sequences

CONSTANT Conn   \* the connections

VARIABLES
  line,     \* the connections that wait, the first being served
  client,   \* each client: [expects: the text it is to get, mayFail, there]
  text,     \* the text each was given
  end,      \* how its answer ended: "none" while it has not
  closed,   \* the connections that were closed
  down      \* whether the server is gone

vars == <<line, client, text, end, closed, down>>

Init ==
  /\ line = <<>> /\ closed = {} /\ ~down
  /\ text = [c \in Conn |-> <<>>]
  /\ end = [c \in Conn |-> "none"]

\* Clients come, ask and leave as they like; they do not change their mind.
Client ==
  /\ line' = line \/ \E c \in Conn : line' = Append(line, c)
  /\ \A c \in Conn : text[c] # <<>> => client'[c].expects = client[c].expects
  /\ UNCHANGED <<text, end, closed, down>>

Serving(c) == line # <<>> /\ c = Head(line) /\ end[c] = "none" /\ client[c].there /\ ~down

\* The next token of the answer.
Say(c) ==
  /\ Serving(c)
  /\ Len(text[c]) < Len(client[c].expects)
  /\ text' = [text EXCEPT ![c] = Append(@, client[c].expects[Len(@) + 1])]
  /\ UNCHANGED <<line, client, end, closed, down>>

\* The answer ends, in a stream after its last token, else with all of it.
Complete(c) ==
  /\ Serving(c)
  /\ text' = [text EXCEPT ![c] = client[c].expects]
  /\ end' = [end EXCEPT ![c] = "complete"]
  /\ UNCHANGED <<line, client, closed, down>>

Fail(c) ==
  /\ Serving(c) /\ client[c].mayFail
  /\ end' = [end EXCEPT ![c] = "error"]
  /\ UNCHANGED <<line, client, text, closed, down>>

Close(c) ==
  /\ line # <<>> /\ c = Head(line) /\ ~down
  /\ end[c] # "none" \/ ~client[c].there
  /\ line' = Tail(line)
  /\ closed' = closed \cup {c}
  /\ UNCHANGED <<client, text, end, down>>

\* A client that hangs up during its answer may take the server with it.
GoDown ==
  /\ line # <<>> /\ ~client[Head(line)].there
  /\ down' = TRUE
  /\ UNCHANGED <<line, client, text, end, closed>>

Next ==
  Client \/ GoDown \/ \E c \in Conn : Say(c) \/ Complete(c) \/ Fail(c) \/ Close(c)

Spec == Init /\ [][Next]_vars
=============================================================================
