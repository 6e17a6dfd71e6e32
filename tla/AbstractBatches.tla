--------------------------- MODULE AbstractBatches ---------------------------
(***************************************************************************)
(* What the delivery service promises about the messages of a              *)
(* subscription.  A message that comes is dropped, sent alone, or put at   *)
(* the end of a line.  The line is sent from its front, by a message that  *)
(* completes a batch or by the timer; the messages of a request are        *)
(* answered together.  The line is lost only when the service stops.       *)
(***************************************************************************)
EXTENDS Integers, Sequences

CONSTANTS
    Messages,
    Limits          \* the batch sizes that the subscription may have

VARIABLES
    fate,           \* of each message
    line,           \* the messages that wait, in the order they came
    requests,       \* the requests without an answer: sets of messages
    sends,          \* how often a message was put into a request
    stopped         \* the service has been stopped

vars == <<fate, line, requests, sends, stopped>>

Init ==
    /\ fate = [m \in Messages |-> "coming"]
    /\ line = <<>>
    /\ requests = {}
    /\ sends = [m \in Messages |-> 0]
    /\ stopped = FALSE

Members(s) == {s[i] : i \in DOMAIN s}

Becomes(ms, f) == fate' = [m \in Messages |-> IF m \in ms THEN f ELSE fate[m]]

Drop(m) ==
    /\ fate[m] = "coming"
    /\ \E f \in {"skipped", "lost"} : Becomes({m}, f)
    /\ UNCHANGED <<line, requests, sends, stopped>>

\* A line with this message is too short for a request.
Join(m) ==
    /\ fate[m] = "coming"
    /\ \E n \in Limits : Len(line) + 1 < n
    /\ Becomes({m}, "waiting")
    /\ line' = Append(line, m)
    /\ UNCHANGED <<requests, sends, stopped>>

\* One request, which is answered later or, over a websocket, never: whoever came
\* with it and is not in it waits.
Send(ms, rest) ==
    /\ line' = rest
    /\ sends' = [m \in Messages |-> IF m \in ms THEN sends[m] + 1 ELSE sends[m]]
    /\ \E f \in {"out", "sent"} :
          /\ fate' = [m \in Messages |->
                        CASE m \in ms                     -> f
                          [] m \in Members(rest) \ ms     -> "waiting"
                          [] OTHER                        -> fate[m]]
          /\ requests' = IF f = "out" THEN requests \cup {ms} ELSE requests
    /\ stopped' = stopped

SendFront(q, k) == Send(Members(SubSeq(q, 1, k)), SubSeq(q, k + 1, Len(q)))

SendAlone(m) == fate[m] = "coming" /\ Send({m}, line)

\* The message completes a batch, which is full.
SendFull(m) ==
    /\ fate[m] = "coming"
    /\ \E n \in Limits : n <= Len(line) + 1 /\ SendFront(Append(line, m), n)

SendTimed ==
    /\ line # <<>>
    /\ \E n \in Limits : SendFront(line, IF n < Len(line) THEN n ELSE Len(line))

Answer(ms) ==
    /\ \A m \in ms : fate[m] = "out"
    /\ requests' = requests \ {ms}
    /\ \E f \in {"sent", "failed"} : Becomes(ms, f)
    /\ UNCHANGED <<line, sends, stopped>>

Stop ==
    /\ ~stopped /\ stopped' = TRUE
    /\ line' = <<>>
    /\ fate' = [m \in Messages |-> IF fate[m] = "waiting" THEN "lost" ELSE fate[m]]
    /\ UNCHANGED <<requests, sends>>

Next ==
    \/ \E m \in Messages : Drop(m) \/ Join(m) \/ SendAlone(m) \/ SendFull(m)
    \/ SendTimed
    \/ \E ms \in requests : Answer(ms)
    \/ Stop

Spec == Init /\ [][Next]_vars
=============================================================================
