--------------------------- MODULE InOrderStream ---------------------------
(***************************************************************************)
(* What a receive buffer promises, without segments, windows or SACK: the  *)
(* bytes of a stream arrive in any order and grouping, none that arrived   *)
(* is ever forgotten, and the reader gets bytes 1, 2, 3, ... each once.    *)
(***************************************************************************)
EXTENDS Integers, Sequences

CONSTANT StreamLen

VARIABLES
    arrived,    \* bytes accepted and not yet read
    delivered   \* bytes read, in the order they were read

streamVars == <<arrived, delivered>>

StreamInit == arrived = {} /\ delivered = << >>

\* Any bytes that were not read before may arrive, again or for the first time.
Arrive ==
    /\ arrived \subseteq arrived'
    /\ arrived' \subseteq (Len(delivered) + 1) .. StreamLen
    /\ UNCHANGED delivered

\* The next n bytes are all there, and are handed over in order.
Read(n) ==
    LET from == Len(delivered)
    IN  /\ \A x \in (from + 1) .. (from + n) : x \in arrived
        /\ delivered' = delivered \o [i \in 1 .. n |-> from + i]
        /\ arrived' = arrived \ ((from + 1) .. (from + n))

StreamNext ==
    \/ Arrive
    \/ \E n \in 1 .. StreamLen : Read(n)

StreamSpec == StreamInit /\ [][StreamNext]_streamVars
=============================================================================
