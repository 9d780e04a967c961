------------------------------ MODULE DmsgTxn ------------------------------
(***************************************************************************)
(* What a DMSG transaction promises its two ends, without states, message  *)
(* ids or queues.  A transaction is a pair of one-way streams: the command *)
(* of the end that started it and the reply of the other end.  Each stream *)
(* is opened once and closed once, and each end sees the stream of the     *)
(* other one no further than it was sent; only an end whose link is lost   *)
(* may take the close of a stream as given.  Transactions are independent, *)
(* and those an end starts under the same name follow one another.         *)
(***************************************************************************)
EXTENDS Naturals

CONSTANTS
  Peers,       \* the two ends of the link
  Names,       \* what distinguishes the transactions an end has at the same time
  Rounds       \* how often a name can be used

Txns == Peers \X Names \X (1..Rounds)

Starter(x) == x[1]
Peer(p)    == CHOOSE q \in Peers : q # p

VARIABLES
  sent,        \* sent[p][x]: the phase of the stream p sends in x
  seen,        \* seen[p][x]: the phase of the stream of the other end, as p sees it
  lost         \* the ends whose link is lost

absvars == <<sent, seen, lost>>

Over(p, x) == sent[p][x] = "closed" /\ seen[p][x] = "closed"
Idle(p, x) == sent[p][x] = "idle" /\ seen[p][x] = "idle"

\* The transactions of the same name that come before x.
Earlier(x) == {y \in Txns : y[1] = x[1] /\ y[2] = x[2] /\ y[3] < x[3]}

AbsInit ==
  /\ sent = [p \in Peers |-> [x \in Txns |-> "idle"]]
  /\ seen = [p \in Peers |-> [x \in Txns |-> "idle"]]
  /\ lost = {}

\* p opens its stream: the command when every earlier transaction of the
\* name is over at p, the reply once the command has been seen.
Open(p, x) ==
  /\ sent[p][x] = "idle"
  /\ IF p = Starter(x) THEN \A y \in Earlier(x) : Over(p, y)
                       ELSE seen[p][x] # "idle"
  /\ sent' = [sent EXCEPT ![p][x] = "open"]
  /\ UNCHANGED <<seen, lost>>

Sending(p) == {x \in Txns : sent[p][x] = "open"}

\* p closes its stream, in one transaction or in two at a time.
Close(p, xs) ==
  /\ xs \subseteq Sending(p)
  /\ sent' = [sent EXCEPT ![p] = [x \in Txns |-> IF x \in xs THEN "closed" ELSE @[x]]]
  /\ UNCHANGED <<seen, lost>>

\* p sees the stream of the other end open.
SeeOpen(p, x) ==
  /\ seen[p][x] = "idle"
  /\ sent[Peer(p)][x] # "idle"
  /\ p # Starter(x) => \A y \in Earlier(x) : Over(p, y)
  /\ seen' = [seen EXCEPT ![p][x] = "open"]
  /\ UNCHANGED <<sent, lost>>

\* p sees the stream of the other end closed, or gives it up with the link.
SeeClose(p, x) ==
  /\ \/ seen[p][x] = "open" /\ sent[Peer(p)][x] = "closed"
     \/ seen[p][x] # "closed" /\ ~Idle(p, x) /\ p \in lost
  /\ seen' = [seen EXCEPT ![p][x] = "closed"]
  /\ UNCHANGED <<sent, lost>>

Lose(p) ==
  /\ lost' = lost \cup {p}
  /\ UNCHANGED <<sent, seen>>

AbsNext ==
  \E p \in Peers :
    \/ Lose(p)
    \/ \E x, y \in Sending(p) : Close(p, {x, y})
    \/ \E x \in Txns : Open(p, x) \/ SeeOpen(p, x) \/ SeeClose(p, x)

AbsSpec == AbsInit /\ [][AbsNext]_absvars
=============================================================================
