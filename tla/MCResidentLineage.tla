-------------------------- MODULE MCResidentLineage --------------------------
(***************************************************************************)
(* ResidentLineage for TLC, from two kinds of start: an empty database, for*)
(* the consent chain under edits of the SOUL file and detached runs; and a *)
(* database in which the SOUL was derived in batches 1 to 3, for binding,  *)
(* assembly, crashes and recovery.  A bound that a start does not use is   *)
(* used up when it begins.                                                 *)
(***************************************************************************)
EXTENDS ResidentLineage, TLC

CONSTANTS s1, s2, w1, w2, t1, t2

Text(w) == [world |-> w, kind |-> "text"]
Image(w) == [world |-> w, kind |-> "image"]
Ambient(w) == [world |-> w, kind |-> "ambient"]

\* More messages of one world than a request holds; two worlds; and messages
\* that wake no turn or that have no text projection.
LongFeeds == {<<Text(w1), Text(w1), Text(w1)>>, <<Text(w1), Text(w2)>>,
              <<Ambient(w1), Image(w1), Text(w1)>>}
MCFeeds == {<<Text(w1)>>} \cup LongFeeds

StartEmpty ==
    /\ NoRows
    /\ JustBooted(BatchBound - 5)
    /\ feed = <<Text(w1)>>
    /\ deliveries = DeliveryBound - 1 /\ edits = 0 /\ crashes = CrashBound

\* The SOUL s was inspected, authorized and derived; a candidate of the text
\* it had before is left over.
StartDerived ==
    \E s \in Souls, before \in Souls :
    LET old == [soul |-> before, b |-> 1, c |-> 0]
        k   == [soul |-> s, b |-> 2, c |-> 0]
        a   == [candidate |-> k, b |-> 3, c |-> 0, seen |-> s]
        d   == [authorization |-> a, b |-> 4, c |-> 0, seen |-> s]
    IN  /\ before # s
        /\ events = <<>> /\ projected = {} /\ candidates = {old, k}
        /\ authorizations = {a} /\ derivations = <<d>> /\ layers = {s} /\ bindings = {}
        /\ heads = [w \in Worlds |-> NoSoul]
        /\ admissions = {} /\ attempts = <<>> /\ crashed = {} /\ abandoned = {}
        /\ recovered = {} /\ coordinator = 0 /\ providers = <<>>
        /\ JustBooted(4)
        /\ feed \in LongFeeds /\ soul = s
        /\ deliveries = 0 /\ edits = EditBound /\ crashes = 0

MCInit == StartEmpty \/ StartDerived
MCSpec == MCInit /\ [][Next]_vars

\* SOUL texts and targets are only compared with one another.
Interchangeable == Permutations({s1, s2}) \cup Permutations({t1, t2})
==============================================================================
