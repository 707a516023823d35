----------------------------- MODULE HomeReply -----------------------------
(***************************************************************************)
(* What the active home conversation promises to a peer, without saying    *)
(* how: messages are taken in the order in which they were accepted, one   *)
(* at a time; a taken message is put to the provider at most once and its  *)
(* reply is released to Discord at most once; it ends answered, with the   *)
(* reply known to be in the channel, or failed, and never again changes.   *)
(* A reply that was released may still appear after the message failed:    *)
(* that is the uncertainty the code records and never resolves by sending  *)
(* again.                                                                  *)
(***************************************************************************)
EXTENDS Integers

CONSTANTS Msgs, HomeMsgs

VARIABLES
  state,     \* new, ignored, waiting, taken, answered, failed
  order,     \* position of the accepted message, 0 = not accepted
  last,      \* last position given away
  asked,     \* calls of the provider made for the message
  released,  \* the reply was handed to Discord
  said       \* replies to the message that reached the channel

replyVars == <<state, order, last, asked, released, said>>

Init ==
  /\ state = [m \in Msgs |-> "new"]
  /\ order = [m \in Msgs |-> 0]
  /\ last = 0
  /\ asked = [m \in Msgs |-> 0]
  /\ released = {}
  /\ said = [m \in Msgs |-> 0]

Accept(m) ==
  /\ state[m] = "new"
  /\ state' = [state EXCEPT ![m] = IF m \in HomeMsgs
                                     THEN "waiting" ELSE "ignored"]
  /\ last' = last + 1
  /\ order' = [order EXCEPT ![m] = last']
  /\ UNCHANGED <<asked, released, said>>

Take(m) ==
  /\ state[m] = "waiting"
  /\ \A n \in Msgs : state[n] # "taken"
  /\ \A n \in Msgs : state[n] = "waiting" => order[m] <= order[n]
  /\ state' = [state EXCEPT ![m] = "taken"]
  /\ UNCHANGED <<order, last, asked, released, said>>

Ask(m) ==
  /\ state[m] = "taken"
  /\ asked[m] = 0
  /\ asked' = [asked EXCEPT ![m] = 1]
  /\ UNCHANGED <<state, order, last, released, said>>

Release(m) ==
  /\ state[m] = "taken"
  /\ asked[m] = 1
  /\ m \notin released
  /\ released' = released \cup {m}
  /\ UNCHANGED <<state, order, last, asked, said>>

Say(m) ==
  /\ m \in released
  /\ said[m] = 0
  /\ said' = [said EXCEPT ![m] = 1]
  /\ UNCHANGED <<state, order, last, asked, released>>

Answer(m) ==
  /\ state[m] = "taken"
  /\ said[m] = 1
  /\ state' = [state EXCEPT ![m] = "answered"]
  /\ UNCHANGED <<order, last, asked, released, said>>

Fail(m) ==
  /\ state[m] = "taken"
  /\ state' = [state EXCEPT ![m] = "failed"]
  /\ UNCHANGED <<order, last, asked, released, said>>

Next ==
  \E m \in Msgs : \/ Accept(m) \/ Take(m) \/ Ask(m) \/ Release(m)
                  \/ Say(m) \/ Answer(m) \/ Fail(m)

Spec == Init /\ [][Next]_replyVars

=============================================================================
