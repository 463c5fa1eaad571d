------------------------------ MODULE PaneFeed ------------------------------
(***************************************************************************)
(* What a pane stream promises its client, whatever the transport.  The    *)
(* pane appends bytes to a log.  A feed starts at some position of that    *)
(* log; from there every byte is handed over once, in order, and none is   *)
(* handed over before it was written.  A feed may stop at any moment and   *)
(* may start again somewhere else.  PaneStream (the local log tail) and    *)
(* RemoteStream (the SSH tail) are both checked to implement this.         *)
(***************************************************************************)
EXTENDS Integers, Sequences

CONSTANT Feeds          \* the connections that follow the pane

VARIABLES
  written,    \* number of bytes the pane has written
  from,       \* where each feed started; -1 when it is not running
  fed         \* positions each running feed has handed over so far

feedVars == <<written, from, fed>>

Off == -1

FeedInit ==
  /\ written \in Nat
  /\ from = [f \in Feeds |-> Off]
  /\ fed = [f \in Feeds |-> <<>>]

Write == written' > written /\ UNCHANGED <<from, fed>>

Start(f) ==
  /\ \E p \in 0..written: from' = [from EXCEPT ![f] = p]
  /\ fed' = [fed EXCEPT ![f] = <<>>]
  /\ UNCHANGED written

\* The next n bytes, and nothing else.
Feed(f) ==
  /\ from[f] # Off
  /\ \E n \in 1..(written - from[f] - Len(fed[f])):
       fed' = [fed EXCEPT ![f] =
                 @ \o [i \in 1..n |-> from[f] + Len(fed[f]) + i - 1]]
  /\ UNCHANGED <<written, from>>

Stop(F) ==
  /\ from' = [f \in Feeds |-> IF f \in F THEN Off ELSE from[f]]
  /\ fed' = [f \in Feeds |-> IF f \in F THEN <<>> ELSE fed[f]]
  /\ UNCHANGED written

FeedNext ==
  \/ Write
  \/ \E f \in Feeds: Start(f) \/ Feed(f)
  \/ \E F \in SUBSET Feeds: Stop(F)

FeedSpec == FeedInit /\ [][FeedNext]_feedVars
=============================================================================
