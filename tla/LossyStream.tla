---------------------------- MODULE LossyStream ----------------------------
(***************************************************************************)
(* What the relay promises a subscriber, without threads, locks or         *)
(* sockets: a bounded stream that starts at an access point, may skip      *)
(* chunks but never reorders or repeats one, and accounts for every chunk  *)
(* it skips.  RelayFanout implements it (see ImplementsStream there).      *)
(*                                                                         *)
(* The account is not free of doubt: the chunk being sent while the queue  *)
(* is shortened is counted as lost although it was, or is about to be,     *)
(* delivered.  That single chunk is the only one counted twice.            *)
(***************************************************************************)
EXTENDS Integers, Sequences

CONSTANTS Reader, Capacity, Entry    \* Entry: the numbers of access points

VARIABLES
    published,  \* number of the last chunk
    open,       \* the readers that have joined and not left
    taken,      \* per reader, the numbers accepted for it
    pending,    \* per reader, what is still to be delivered, in order
    lost,       \* per reader, the numbers counted as lost
    delivered   \* per reader, what it was sent, in order

vars == <<published, open, taken, pending, lost, delivered>>

Carried(q) == {q[i].n : i \in DOMAIN q}

\* n may be delivered next to a reader that was sent q.
After(q, n) == q = <<>> \/ q[Len(q)].n < n

\* The number that may be counted as lost and be delivered all the same.
InDoubt(r) == IF delivered[r] = <<>> THEN {} ELSE {delivered[r][Len(delivered[r])].n}

Init ==
    /\ published = 0 /\ open = {}
    /\ taken = [r \in Reader |-> {}]
    /\ pending = [r \in Reader |-> <<>>]
    /\ lost = [r \in Reader |-> {}]
    /\ delivered = [r \in Reader |-> <<>>]

Publish ==
    /\ published' = published + 1
    /\ UNCHANGED <<open, taken, pending, lost, delivered>>

Join(r) ==
    /\ r \notin open /\ taken[r] = {}
    /\ open' = open \cup {r}
    /\ UNCHANGED <<published, taken, pending, lost, delivered>>

\* The k oldest pending chunks are given up, and counted.
Skip(r, k, more) ==
    \E twice \in SUBSET InDoubt(r) :
        lost' = [lost EXCEPT ![r] =
                    @ \cup Carried(SubSeq(pending[r], 1, k)) \cup twice \cup more]

\* The current chunk is accepted for a reader; a null chunk stands for its
\* content when the content is counted as lost at once.
Accept(r, null) ==
    /\ r \in open /\ published \notin taken[r]
    /\ taken[r] = {} => published \in Entry
    /\ \E k \in 0..Len(pending[r]) :
          /\ Len(pending[r]) - k < Capacity
          /\ pending' = [pending EXCEPT ![r] =
                Append(SubSeq(@, k + 1, Len(@)), [n |-> published, null |-> null])]
          /\ Skip(r, k, IF null THEN {published} ELSE {})
    /\ taken' = [taken EXCEPT ![r] = @ \cup {published}]
    /\ UNCHANGED <<published, open, delivered>>

\* A reader that is held back has its whole backlog given up.
Discard(r) ==
    /\ pending' = [pending EXCEPT ![r] = <<>>]
    /\ Skip(r, Len(pending[r]), {})
    /\ UNCHANGED <<published, open, taken, delivered>>

Deliver(r) ==
    /\ r \in open /\ pending[r] # <<>>
    /\ delivered' = [delivered EXCEPT ![r] = Append(@, Head(pending[r]))]
    /\ pending' = [pending EXCEPT ![r] = Tail(@)]
    /\ UNCHANGED <<published, open, taken, lost>>

\* A chunk given up while it was being sent arrives nevertheless, in its place.
DeliverLate(r) ==
    /\ r \in open
    /\ \E m \in lost[r], null \in BOOLEAN :
          /\ After(delivered[r], m) /\ \A p \in Carried(pending[r]) : m < p
          /\ delivered' = [delivered EXCEPT ![r] = Append(@, [n |-> m, null |-> null])]
    /\ UNCHANGED <<published, open, taken, pending, lost>>

\* Readers leave; what is pending for them goes with them.
Leave(R) ==
    /\ open' = open \ R
    /\ pending' = [r \in Reader |-> IF r \in R THEN <<>> ELSE pending[r]]
    /\ UNCHANGED <<published, taken, lost, delivered>>

Next ==
    \/ Publish
    \/ \E r \in Reader :
          \/ Join(r) \/ Discard(r) \/ Deliver(r) \/ DeliverLate(r)
          \/ \E null \in BOOLEAN : Accept(r, null)
    \/ \E R \in SUBSET open : Leave(R)

Spec == Init /\ [][Next]_vars
=============================================================================
